---- MODULE Spec2Model ----
(***************************************************************************)
(* HTMLCrunch (src/parser.ts): the element / fragments / document /        *)
(* shadow-root parsers, the serializer and the module-level foreignStack,  *)
(* modelled on inputs that are sequences of one-character strings.         *)
(***************************************************************************)
EXTENDS Integers, Sequences, FiniteSets, TLC

VARIABLES
  foreignStack,    \* src/parser.ts:357, the module-level stack of foreign roots
  pieces,          \* the text handed to the last invocation, as the pieces it is written in
  entry,           \* the parser invoked last: element, fragments, html or shadowRoot
  result,          \* what that invocation returned
  output,          \* << >>, or the serialization of result once it is serialized
  options,         \* the SerializationOptions of the last serialization
  first,           \* << >>, or the result whose serialization was parsed again
  calls,           \* number of parser invocations made so far in this process
  frames,          \* the activations of element and fragments of the invocation under way
  started          \* where that invocation has read the start tag of an element so far

vars ==
  <<foreignStack, pieces, entry, result, output, options, first, calls, frames, started>>

\* the state of an invocation under way
stepVars == <<frames, started>>

(***************************************************************************)
(* Static tables of the source                                             *)
(***************************************************************************)
voidElements ==
  <<
     <<"a", "r", "e", "a">>, <<"b", "a", "s", "e">>, <<"b", "r">>, <<"c", "o", "l">>,
     <<"e", "m", "b", "e", "d">>, <<"h", "r">>, <<"i", "m", "g">>, <<"i", "n", "p", "u", "t">>,
     <<"l", "i", "n", "k">>, <<"m", "e", "t", "a">>, <<"s", "o", "u", "r", "c", "e">>,
     <<"t", "r", "a", "c", "k">>, <<"w", "b", "r">> >>

rawTextElements ==
  << <<"s", "c", "r", "i", "p", "t">>, <<"s", "t", "y", "l", "e">> >>

escapableRawTextElements ==
  << <<"t", "e", "x", "t", "a", "r", "e", "a">>, <<"t", "i", "t", "l", "e">> >>

booleanAttributes ==
  <<
     <<"a", "l", "l", "o", "w", "f", "u", "l", "l", "s", "c", "r", "e", "e", "n">>,
     <<"a", "s", "y", "n", "c">>, <<"a", "u", "t", "o", "f", "o", "c", "u", "s">>,
     <<"a", "u", "t", "o", "p", "l", "a", "y">>, <<"c", "h", "e", "c", "k", "e", "d">>,
     <<"c", "o", "n", "t", "r", "o", "l", "s">>, <<"d", "e", "f", "a", "u", "l", "t">>,
     <<"d", "e", "f", "e", "r">>, <<"d", "i", "s", "a", "b", "l", "e", "d">>,
     <<"f", "o", "r", "m", "n", "o", "v", "a", "l", "i", "d", "a", "t", "e">>,
     <<"h", "i", "d", "d", "e", "n">>, <<"i", "n", "e", "r", "t">>, <<"i", "s", "m", "a", "p">>,
     <<"i", "t", "e", "m", "s", "c", "o", "p", "e">>, <<"l", "o", "o", "p">>,
     <<"m", "u", "l", "t", "i", "p", "l", "e">>, <<"m", "u", "t", "e", "d">>,
     <<"n", "o", "m", "o", "d", "u", "l", "e">>,
     <<"n", "o", "v", "a", "l", "i", "d", "a", "t", "e">>, <<"o", "p", "e", "n">>,
     <<"r", "e", "a", "d", "o", "n", "l", "y">>, <<"r", "e", "q", "u", "i", "r", "e", "d">>,
     <<"r", "e", "v", "e", "r", "s", "e", "d">>, <<"s", "e", "l", "e", "c", "t", "e", "d">> >>

FORBIDDEN_CUSTOM_ELEMENT_NAMES ==
  <<
     <<"a", "n", "n", "o", "t", "a", "t", "i", "o", "n", "-", "x", "m", "l">>,
     <<"c", "o", "l", "o", "r", "-", "p", "r", "o", "f", "i", "l", "e">>,
     <<"f", "o", "n", "t", "-", "f", "a", "c", "e">>,
     <<"f", "o", "n", "t", "-", "f", "a", "c", "e", "-", "s", "r", "c">>,
     <<"f", "o", "n", "t", "-", "f", "a", "c", "e", "-", "u", "r", "i">>,
     <<"f", "o", "n", "t", "-", "f", "a", "c", "e", "-", "f", "o", "r", "m", "a", "t">>,
     <<"f", "o", "n", "t", "-", "f", "a", "c", "e", "-", "n", "a", "m", "e">>,
     <<"m", "i", "s", "s", "i", "n", "g", "-", "g", "l", "y", "p", "h">> >>

pOpen ==
  <<
     <<"a", "d", "d", "r", "e", "s", "s">>, <<"a", "r", "t", "i", "c", "l", "e">>,
     <<"a", "s", "i", "d", "e">>, <<"b", "l", "o", "c", "k", "q", "u", "o", "t", "e">>,
     <<"d", "i", "v">>, <<"d", "l">>, <<"f", "i", "e", "l", "d", "s", "e", "t">>,
     <<"f", "i", "g", "c", "a", "p", "t", "i", "o", "n">>, <<"f", "i", "g", "u", "r", "e">>,
     <<"f", "o", "o", "t", "e", "r">>, <<"f", "o", "r", "m">>, <<"h", "1">>, <<"h", "2">>,
     <<"h", "3">>, <<"h", "4">>, <<"h", "5">>, <<"h", "6">>, <<"h", "e", "a", "d", "e", "r">>,
     <<"h", "g", "r", "o", "u", "p">>, <<"h", "r">>, <<"m", "a", "i", "n">>,
     <<"m", "e", "n", "u">>, <<"n", "a", "v">>, <<"o", "l">>, <<"p">>, <<"p", "r", "e">>,
     <<"s", "e", "c", "t", "i", "o", "n">>, <<"t", "a", "b", "l", "e">>, <<"u", "l">> >>

pClosed ==
  <<
     <<"a", "d", "d", "r", "e", "s", "s">>, <<"a", "r", "t", "i", "c", "l", "e">>,
     <<"a", "s", "i", "d", "e">>, <<"b", "o", "d", "y">>,
     <<"b", "l", "o", "c", "k", "q", "u", "o", "t", "e">>,
     <<"c", "a", "p", "t", "i", "o", "n">>, <<"d", "e", "t", "a", "i", "l", "s">>,
     <<"d", "i", "a", "l", "o", "g">>, <<"d", "i", "v">>, <<"d", "d">>, <<"d", "t">>,
     <<"f", "i", "e", "l", "d", "s", "e", "t">>, <<"f", "i", "g", "u", "r", "e">>,
     <<"f", "i", "g", "c", "a", "p", "t", "i", "o", "n">>, <<"f", "o", "o", "t", "e", "r">>,
     <<"f", "o", "r", "m">>, <<"h", "e", "a", "d", "e", "r">>, <<"h", "g", "r", "o", "u", "p">>,
     <<"l", "i">>, <<"m", "a", "i", "n">>, <<"n", "a", "v">>, <<"o", "b", "j", "e", "c", "t">>,
     <<"s", "e", "a", "r", "c", "h">>, <<"s", "e", "c", "t", "i", "o", "n">>, <<"t", "d">>,
     <<"t", "h">>, <<"t", "e", "m", "p", "l", "a", "t", "e">> >>

endTagOmission ==
  <<
    [tag |-> <<"b", "o", "d", "y">>,
     open |-> << >>,
     closed |-> << <<"h", "t", "m", "l">> >>,
     regex |-> TRUE],
    [tag |-> <<"c", "a", "p", "t", "i", "o", "n">>,
     open |-> << <<"c", "o", "l", "g", "r", "o", "u", "p">>, <<"c", "o", "l">>, <<"t", "h", "e", "a", "d">>, <<"t", "b", "o", "d", "y">>, <<"t", "f", "o", "o", "t">>, <<"t", "r">>, <<"t", "h">>, <<"t", "d">> >>,
     closed |-> << >>,
     regex |-> FALSE],
    [tag |-> <<"c", "o", "l", "g", "r", "o", "u", "p">>,
     open |-> << <<"t", "h", "e", "a", "d">>, <<"t", "b", "o", "d", "y">>, <<"t", "f", "o", "o", "t">>, <<"t", "r">> >>,
     closed |-> << >>,
     regex |-> FALSE],
    [tag |-> <<"h", "e", "a", "d">>,
     open |-> << <<"b", "o", "d", "y">> >>,
     closed |-> << >>,
     regex |-> FALSE],
    [tag |-> <<"h", "t", "m", "l">>,
     open |-> << >>,
     closed |-> << >>,
     regex |-> TRUE],
    [tag |-> <<"l", "i">>,
     open |-> << <<"l", "i">> >>,
     closed |-> << <<"u", "l">>, <<"o", "l">>, <<"m", "e", "n", "u">> >>,
     regex |-> FALSE],
    [tag |-> <<"d", "d">>,
     open |-> << <<"d", "d">>, <<"d", "t">> >>,
     closed |-> << <<"d", "l">>, <<"d", "i", "v">> >>,
     regex |-> FALSE],
    [tag |-> <<"d", "t">>,
     open |-> << <<"d", "d">>, <<"d", "t">> >>,
     closed |-> << >>,
     regex |-> FALSE],
    [tag |-> <<"o", "p", "t", "i", "o", "n">>,
     open |-> << <<"o", "p", "t", "i", "o", "n">>, <<"o", "p", "t", "g", "r", "o", "u", "p">>, <<"h", "r">> >>,
     closed |-> << <<"s", "e", "l", "e", "c", "t">>, <<"d", "a", "t", "a", "l", "i", "s", "t">>, <<"o", "p", "t", "g", "r", "o", "u", "p">> >>,
     regex |-> FALSE],
    [tag |-> <<"o", "p", "t", "g", "r", "o", "u", "p">>,
     open |-> << <<"o", "p", "t", "g", "r", "o", "u", "p">>, <<"h", "r">> >>,
     closed |-> << <<"s", "e", "l", "e", "c", "t">> >>,
     regex |-> FALSE],
    [tag |-> <<"p">>,
     open |-> pOpen,
     closed |-> pClosed,
     regex |-> FALSE],
    [tag |-> <<"r", "t">>,
     open |-> << <<"r", "t">>, <<"r", "p">> >>,
     closed |-> << <<"r", "u", "b", "y">> >>,
     regex |-> FALSE],
    [tag |-> <<"r", "p">>,
     open |-> << <<"r", "t">>, <<"r", "p">> >>,
     closed |-> << <<"r", "u", "b", "y">> >>,
     regex |-> FALSE],
    [tag |-> <<"t", "h", "e", "a", "d">>,
     open |-> << <<"t", "b", "o", "d", "y">>, <<"t", "f", "o", "o", "t">> >>,
     closed |-> << >>,
     regex |-> FALSE],
    [tag |-> <<"t", "b", "o", "d", "y">>,
     open |-> << <<"t", "b", "o", "d", "y">>, <<"t", "f", "o", "o", "t">> >>,
     closed |-> << <<"t", "a", "b", "l", "e">> >>,
     regex |-> FALSE],
    [tag |-> <<"t", "f", "o", "o", "t">>,
     open |-> << >>,
     closed |-> << <<"t", "a", "b", "l", "e">> >>,
     regex |-> FALSE],
    [tag |-> <<"t", "d">>,
     open |-> << <<"t", "d">>, <<"t", "h">>, <<"t", "r">> >>,
     closed |-> << <<"t", "r">>, <<"t", "a", "b", "l", "e">> >>,
     regex |-> FALSE],
    [tag |-> <<"t", "h">>,
     open |-> << <<"t", "d">>, <<"t", "h">>, <<"t", "b", "o", "d", "y">> >>,
     closed |-> << <<"t", "r">>, <<"t", "h", "e", "a", "d">> >>,
     regex |-> FALSE],
    [tag |-> <<"t", "r">>,
     open |-> << <<"t", "r">>, <<"t", "b", "o", "d", "y">> >>,
     closed |-> << <<"t", "a", "b", "l", "e">>, <<"t", "h", "e", "a", "d">> >>,
     regex |-> FALSE]
  >>

UpperCase ==
  << "A", "B", "C", "D", "E", "F", "G", "H", "I", "J", "K", "L", "M",
     "N", "O", "P", "Q", "R", "S", "T", "U", "V", "W", "X", "Y", "Z" >>

LowerCase ==
  << "a", "b", "c", "d", "e", "f", "g", "h", "i", "j", "k", "l", "m",
     "n", "o", "p", "q", "r", "s", "t", "u", "v", "w", "x", "y", "z" >>

(***************************************************************************)
(* Characters                                                              *)
(***************************************************************************)
Includes(s, x) == \E i \in 1..Len(s) : s[i] = x

Min(S) == CHOOSE x \in S : \A y \in S : x <= y

toLowerChar(c) ==
  IF \E i \in 1..Len(UpperCase) : UpperCase[i] = c
    THEN LowerCase[CHOOSE i \in 1..Len(UpperCase) : UpperCase[i] = c]
    ELSE c

toLowerCase(s) == [i \in 1..Len(s) |-> toLowerChar(s[i])]

IsLetter(c) == Includes(UpperCase, c) \/ Includes(LowerCase, c)

IsDigit(c) == c \in {"0", "1", "2", "3", "4", "5", "6", "7", "8", "9"}

\* \s of a JavaScript regular expression, on the characters of the model
\* ("BOM" stands for the one character U+FEFF, which \s matches)
IsSpace(c) == c \in {" ", "\t", "\n", "\r", "\f", "BOM"}

\* the characters that . of a JavaScript regular expression does not match
IsLineTerminator(c) == c \in {"\n", "\r"}

\* character classes of the regular expressions of the source
InClass(c, class) ==
  CASE class = "space" -> IsSpace(c)
    [] class = "text" -> c # "<"
    [] class = "attributeName" -> ~IsSpace(c) /\ c \notin {"\"", "'", ">", "/", "="}
    [] class = "singleQuoted" -> c # "'"
    [] class = "doubleQuoted" -> c # "\""
    [] class = "unquoted" -> ~IsSpace(c) /\ c \notin {"=", "'", "\"", "<", ">"}
    [] class = "pcen" -> IsLetter(c) \/ IsDigit(c) \/ c \in {"-", ".", "_"}
    [] class = "alnum" -> IsLetter(c) \/ IsDigit(c)

(***************************************************************************)
(* Lexical primitives: a parser reads inp from position pos (1-based) and  *)
(* returns a success with the position after the match, or a failure.      *)
(***************************************************************************)
Msg(t) == [text |-> t, tag |-> << >>]

TagMsg(t, name) == [text |-> t, tag |-> name]

Ok(v, p) == [success |-> TRUE, value |-> v, position |-> p]

Err(m, p) == [success |-> FALSE, message |-> m, position |-> p]

Success(v, p, fs) == [success |-> TRUE, value |-> v, position |-> p, fs |-> fs]

Failure(m, p, fs) == [success |-> FALSE, message |-> m, position |-> p, fs |-> fs]

remaining(inp, pos) == SubSeq(inp, pos, Len(inp))

\* a parser of the source, by the name of its constant
Parser(name) == [name |-> name]

\* parser.parse(input, position), defined below the parsers it runs
RECURSIVE parse(_, _, _, _)

\* literal(lit) matches at pos
literal(inp, pos, lit) ==
  /\ pos + Len(lit) - 1 <= Len(inp)
  /\ \A i \in 1..Len(lit) : inp[pos + i - 1] = lit[i]

\* a name interpolated into a regular expression with the i flag: letters match in
\* either case and a "." of the name matches any character but a line terminator
namePattern(inp, pos, name) ==
  /\ pos + Len(name) - 1 <= Len(inp)
  /\ \A i \in 1..Len(name) :
       \/ toLowerChar(inp[pos + i - 1]) = toLowerChar(name[i])
       \/ name[i] = "." /\ ~IsLineTerminator(inp[pos + i - 1])

\* position after the longest run of characters of a class starting at pos
span(inp, pos, class) ==
  LET stops == {q \in pos..Len(inp) : ~InClass(inp[q], class)}
  IN  IF stops = {} THEN Len(inp) + 1 ELSE Min(stops)

\* whitespaces = regex(/^\s*/)
whitespaces(inp, pos) == span(inp, pos, "space")

(***************************************************************************)
(* Nodes                                                                   *)
(***************************************************************************)
textNode(t) == [kind |-> "TEXT", text |-> t]

commentNode(t) == [kind |-> "COMMENT", text |-> t]

cdataNode(t) == [kind |-> "CDATA", text |-> t]

(***************************************************************************)
(* Name & attribute lexer                                                  *)
(***************************************************************************)
\* the inner negative lookahead of COMMENT_REGEX without its alternative --!>
commentStopButBang(inp, q) ==
  \/ literal(inp, q, <<"<", "!", "-", "-">>) /\ q + 4 <= Len(inp) /\ inp[q + 4] # ">"
  \/ literal(inp, q, <<"-", "-", ">">>)
  \/ literal(inp, q, <<"<", "!", "-">>) /\ q + 2 = Len(inp)

\* the inner negative lookahead of COMMENT_REGEX fails at q
commentStop(inp, q) ==
  \/ literal(inp, q, <<"<", "!", "-", "-">>) /\ q + 4 <= Len(inp) /\ inp[q + 4] # ">"
  \/ literal(inp, q, <<"-", "-", ">">>)
  \/ literal(inp, q, <<"-", "-", "!", ">">>)
  \/ literal(inp, q, <<"<", "!", "-">>) /\ q + 2 = Len(inp)

\* regex(COMMENT_REGEX): the match, or no match when the body starts with > or ->
COMMENT_REGEX(inp, pos) ==
  IF literal(inp, pos, <<">">>) \/ literal(inp, pos, <<"-", ">">>)
    THEN Err(Msg("Expected a match of COMMENT_REGEX"), pos)
    ELSE LET stops == {q \in pos..Len(inp) : commentStop(inp, q)}
             e == IF stops = {} THEN Len(inp) + 1 ELSE Min(stops)
         IN  Ok(SubSeq(inp, pos, e - 1), e)

comment(inp, pos) ==
  IF ~literal(inp, pos, <<"<", "!", "-", "-">>)
    THEN Err(Msg("Expected <!--"), pos)
    ELSE LET body == COMMENT_REGEX(inp, pos + 4)
         IN  IF ~body.success THEN body
             ELSE IF literal(inp, body.position, <<"-", "-", ">">>)
               THEN Ok(commentNode(body.value), body.position + 3)
               ELSE Err(Msg("Expected -->"), body.position)

\* text as [^<]*: it matches where no character can be read
textMaybeEmpty(inp, pos) ==
  LET e == span(inp, pos, "text")
  IN  Ok(textNode(SubSeq(inp, pos, e - 1)), e)

\* text that stops at "<" only where a tag, a comment or a section can start
textUntilMarkup(inp, pos) ==
  LET stops == {q \in pos..Len(inp) :
                  /\ inp[q] = "<"
                  /\ q < Len(inp)
                  /\ (IsLetter(inp[q + 1]) \/ inp[q + 1] \in {"/", "!"})}
      e == IF stops = {} THEN Len(inp) + 1 ELSE Min(stops)
  IN  IF e > pos THEN Ok(textNode(SubSeq(inp, pos, e - 1)), e)
      ELSE Err(Msg("Expected text"), pos)

text(inp, pos) ==
  LET e == span(inp, pos, "text")
  IN  IF e > pos THEN Ok(textNode(SubSeq(inp, pos, e - 1)), e)
      ELSE Err(Msg("Expected text"), pos)

\* the lookahead </tagName[\t\n\f\r >/] of rawText matches at q
rawTextEnd(inp, q, tagName) ==
  /\ literal(inp, q, <<"<", "/">>)
  /\ namePattern(inp, q + 2, tagName)
  /\ q + 2 + Len(tagName) <= Len(inp)
  /\ inp[q + 2 + Len(tagName)] \in {"\t", "\n", "\f", "\r", " ", ">", "/"}

rawText(inp, pos, tagName) ==
  LET eats(q) == \/ ~rawTextEnd(inp, q, tagName) /\ ~IsLineTerminator(inp[q])
                 \/ inp[q] = "\n"
      stops == {q \in pos..Len(inp) : ~eats(q)}
      e == IF stops = {} THEN Len(inp) + 1 ELSE Min(stops)
  IN  Ok(IF e > pos THEN <<textNode(SubSeq(inp, pos, e - 1))>> ELSE << >>, e)

CDATA_OPEN == <<"<", "!", "[", "C", "D", "A", "T", "A", "[">>

CDATA_CLOSE == <<"]", "]", ">">>

cdata(inp, pos) ==
  IF ~literal(inp, pos, CDATA_OPEN)
    THEN Err(Msg("Expected <![CDATA["), pos)
    ELSE LET b == pos + Len(CDATA_OPEN)
             stops == {q \in b..Len(inp) : literal(inp, q, CDATA_CLOSE)}
         IN  IF stops = {} THEN Err(Msg("Expected ]]>"), Len(inp) + 1)
             ELSE Ok(cdataNode(SubSeq(inp, b, Min(stops) - 1)), Min(stops) + 3)

\* an attribute name read as attributeName reads it, but given in lower case
attributeNameLowerCase(inp, pos) ==
  LET e == span(inp, pos, "attributeName")
  IN  IF e > pos THEN Ok(toLowerCase(SubSeq(inp, pos, e - 1)), whitespaces(inp, e))
      ELSE Err(Msg("Expected a valid attribute name"), pos)

attributeName(inp, pos) ==
  LET e == span(inp, pos, "attributeName")
  IN  IF e > pos THEN Ok(SubSeq(inp, pos, e - 1), whitespaces(inp, e))
      ELSE Err(Msg("Expected a valid attribute name"), pos)

quoted(inp, pos, quote, class) ==
  IF ~literal(inp, pos, <<quote>>) THEN Err(Msg("Expected a quote"), pos)
  ELSE LET e == span(inp, pos + 1, class)
       IN  IF literal(inp, e, <<quote>>) THEN Ok(SubSeq(inp, pos + 1, e - 1), e + 1)
           ELSE Err(Msg("Expected a quote"), e)

\* an attribute value read as attributeValue reads it, but an unquoted value
\* ends before a "/"
attributeValueBeforeSlash(inp, pos) ==
  LET single == quoted(inp, pos, "'", "singleQuoted")
      double == quoted(inp, pos, "\"", "doubleQuoted")
      stops == {q \in pos..Len(inp) : ~InClass(inp[q], "unquoted") \/ inp[q] = "/"}
      e == IF stops = {} THEN Len(inp) + 1 ELSE Min(stops)
  IN  IF single.success THEN single
      ELSE IF double.success THEN double
      ELSE IF e > pos THEN Ok(SubSeq(inp, pos, e - 1), e)
      ELSE Err(Msg("Expected an attribute value"), pos)

attributeValue(inp, pos) ==
  LET single == quoted(inp, pos, "'", "singleQuoted")
      double == quoted(inp, pos, "\"", "doubleQuoted")
      e == span(inp, pos, "unquoted")
  IN  IF single.success THEN single
      ELSE IF double.success THEN double
      ELSE IF e > pos THEN Ok(SubSeq(inp, pos, e - 1), e)
      ELSE Err(Msg("Expected an attribute value"), pos)

attribute(inp, pos) ==
  LET name == attributeName(inp, pos)
  IN  IF ~name.success THEN name
      ELSE LET eq == literal(inp, name.position, <<"=">>)
               value == attributeValue(inp, whitespaces(inp, name.position + 1))
           IN  IF eq /\ value.success
                 THEN Ok(<<name.value, value.value>>, whitespaces(inp, value.position))
                 ELSE Ok(<<name.value, << >> >>, whitespaces(inp, name.position))

RECURSIVE manyAttributes(_, _, _)
\* many(attribute)
manyAttributes(inp, pos, acc) ==
  LET a == attribute(inp, pos)
  IN  IF a.success
        THEN manyAttributes(inp, a.position, Append(acc, a.value))
        ELSE Ok(acc, pos)

potentialCustomElementName(inp, pos) ==
  IF pos <= Len(inp) /\ IsLetter(inp[pos])
    THEN LET e == span(inp, pos + 1, "pcen")
         IN  Ok(toLowerCase(SubSeq(inp, pos, e - 1)), e)
    ELSE Err(Msg("Invalid custom element name"), pos)

\* customElementName without the test of the forbidden names
customElementNameNotForbidden(inp, pos) ==
  LET name == potentialCustomElementName(inp, pos)
  IN  IF ~name.success THEN name
      ELSE IF ~Includes(name.value, "-")
        THEN Err(Msg("Invalid custom element name (should include a dash)"),
                 name.position)
      ELSE name

customElementName(inp, pos) ==
  LET name == potentialCustomElementName(inp, pos)
  IN  IF ~name.success THEN name
      ELSE IF Includes(FORBIDDEN_CUSTOM_ELEMENT_NAMES, name.value)
        THEN Err(Msg("Forbidden custom element name"), name.position)
      ELSE IF ~Includes(name.value, "-")
        THEN Err(Msg("Invalid custom element name (should include a dash)"),
                 name.position)
      ELSE name

htmlTagName(inp, pos, fs) ==
  IF pos <= Len(inp) /\ IsLetter(inp[pos])
    THEN LET e == span(inp, pos + 1, "alnum")
             name == SubSeq(inp, pos, e - 1)
         IN  Ok(IF Len(fs) > 0 THEN name ELSE toLowerCase(name), e)
    ELSE Err(Msg("Invalid html tag name"), pos)

tagName(inp, pos, fs) ==
  LET custom == customElementName(inp, pos)
      html == htmlTagName(inp, pos, fs)
  IN  IF custom.success THEN custom
      ELSE IF html.success THEN html
      ELSE IF html.position > custom.position THEN html ELSE custom

(***************************************************************************)
(* Element-kind classifier                                                 *)
(***************************************************************************)
SVG == <<"s", "v", "g">>

MATH == <<"m", "a", "t", "h">>

TEMPLATE == <<"t", "e", "m", "p", "l", "a", "t", "e">>

\* the kind of tag, and the foreign stack after the call
elementKind(tag, fs) ==
  IF tag = TEMPLATE THEN [kind |-> "TEMPLATE", fs |-> fs]
  ELSE IF Includes(voidElements, tag) THEN [kind |-> "VOID", fs |-> fs]
  ELSE IF Includes(rawTextElements, tag) THEN [kind |-> "RAW_TEXT", fs |-> fs]
  ELSE IF Includes(escapableRawTextElements, tag)
    THEN [kind |-> "ESCAPABLE_RAW_TEXT", fs |-> fs]
  ELSE IF tag = SVG \/ tag = MATH THEN [kind |-> "FOREIGN", fs |-> Append(fs, tag)]
  ELSE IF Len(fs) > 0 THEN [kind |-> "FOREIGN", fs |-> fs]
  ELSE [kind |-> "NORMAL", fs |-> fs]

(***************************************************************************)
(* Element parser                                                          *)
(***************************************************************************)
\* a self-closing tag is unexpected on every kind but VOID
unexpectedSelfClosingButVoid(selfClosing, kind) == selfClosing /\ kind # "VOID"

\* src/parser.ts:389 the condition of "Unexpected self-closing tag on a non-void element"
unexpectedSelfClosing(selfClosing, kind) ==
  selfClosing /\ kind # "VOID" /\ kind # "FOREIGN"

\* src/parser.ts:378 startTag; fs is foreignStack before, the result holds it after
startTag(inp, pos, fs) ==
  IF ~literal(inp, pos, <<"<">>) THEN Failure(Msg("Invalid start tag"), pos, fs)
  ELSE
    LET name == parse(Parser("tagName"), inp, pos + 1, fs)
    IN  IF ~name.success THEN Failure(Msg("Invalid start tag"), name.position, fs)
        ELSE
          LET ws == whitespaces(inp, name.position)
              attributes == IF ws > name.position
                              THEN parse(Parser("many(attribute)"), inp, ws, fs)
                              ELSE Ok(<< >>, name.position)
              p == attributes.position
              end == IF literal(inp, p, <<"/", ">">>) THEN <<"/", ">">>
                     ELSE IF literal(inp, p, <<">">>) THEN <<">">>
                     ELSE << >>
          IN  IF end = << >> THEN Failure(Msg("Invalid start tag"), p, fs)
              ELSE
                LET k == elementKind(name.value, fs)
                    selfClosing == (end = <<"/", ">">>) \/ k.kind = "VOID"
                IN  IF unexpectedSelfClosing(selfClosing, k.kind)
                      THEN Failure(
                             Msg("Unexpected self-closing tag on a non-void element"),
                             p + Len(end), k.fs)
                      ELSE Success([tagName |-> name.value, kind |-> k.kind,
                                    attributes |-> attributes.value,
                                    selfClosing |-> selfClosing],
                                   p + Len(end), k.fs)

\* properties every JavaScript object inherits, which the in operator also finds
objectPrototypeKeys ==
  << <<"c", "o", "n", "s", "t", "r", "u", "c", "t", "o", "r">>,
     <<"t", "o", "S", "t", "r", "i", "n", "g">>,
     <<"v", "a", "l", "u", "e", "O", "f">> >>

\* endTagOmission[tagName]: the entry of the table, or one without open, closed, regex
omission(name) ==
  IF \E i \in 1..Len(endTagOmission) : endTagOmission[i].tag = name
    THEN endTagOmission[CHOOSE i \in 1..Len(endTagOmission) :
                          endTagOmission[i].tag = name]
    ELSE [tag |-> name, open |-> << >>, closed |-> << >>, regex |-> FALSE]

\* tagName in endTagOmission
inEndTagOmission(name) ==
  \/ \E i \in 1..Len(endTagOmission) : endTagOmission[i].tag = name
  \/ Includes(objectPrototypeKeys, name)

\* a start tag whose name begins with a member of tags stands at pos: (?=<tag)
openTagAhead(inp, pos, tags) ==
  \E i \in 1..Len(tags) : literal(inp, pos, <<"<">>) /\ namePattern(inp, pos + 1, tags[i])

\* position after </name\s*> at pos, or 0 when it does not match
endTagAfter(inp, pos, name) ==
  IF literal(inp, pos, <<"<", "/">>) /\ namePattern(inp, pos + 2, name)
    THEN LET p == whitespaces(inp, pos + 2 + Len(name))
         IN  IF literal(inp, p, <<">">>) THEN p + 1 ELSE 0
    ELSE 0

\* endTagParser with the regex of the entry matching wherever the parser stands
endTagParserRegexAnywhere(inp, pos, name) ==
  LET om == omission(name)
  IN  IF openTagAhead(inp, pos, om.open) THEN Ok(<< >>, pos)
      ELSE IF \E i \in 1..Len(om.closed) : endTagAfter(inp, pos, om.closed[i]) # 0
        THEN Ok(<< >>, pos)
      ELSE IF om.regex THEN Ok(<< >>, pos)
      ELSE IF endTagAfter(inp, pos, name) # 0
        THEN Ok(SubSeq(inp, pos, endTagAfter(inp, pos, name) - 1),
                endTagAfter(inp, pos, name))
      ELSE IF inEndTagOmission(name)
        THEN Err(TagMsg("Expected a match of the end tag pattern", name), pos)
      ELSE Err(TagMsg("Expected a '</tagName>' end tag", name), pos)

\* src/parser.ts:526 endTagPattern / endTagParser: the alternatives, in order
endTagParser(inp, pos, name) ==
  LET om == omission(name)
  IN  IF openTagAhead(inp, pos, om.open) THEN Ok(<< >>, pos)
      ELSE IF \E i \in 1..Len(om.closed) : endTagAfter(inp, pos, om.closed[i]) # 0
        THEN Ok(<< >>, pos)
      ELSE IF om.regex /\ pos = Len(inp) + 1 THEN Ok(<< >>, pos)
      ELSE IF endTagAfter(inp, pos, name) # 0
        THEN Ok(SubSeq(inp, pos, endTagAfter(inp, pos, name) - 1),
                endTagAfter(inp, pos, name))
      ELSE IF inEndTagOmission(name)
        THEN Err(TagMsg("Expected a match of the end tag pattern", name), pos)
      ELSE Err(TagMsg("Expected a '</tagName>' end tag", name), pos)

\* ^\s*</tagName> after a void or self-closing start tag
voidEndTagAhead(inp, pos, name) ==
  LET p == whitespaces(inp, pos)
  IN  /\ literal(inp, p, <<"<", "/">>)
      /\ namePattern(inp, p + 2, name)
      /\ literal(inp, p + 2 + Len(name), <<">">>)

RECURSIVE manyNodes(_, _, _, _, _, _)

\* many(alt(text, element, [cdata], comment)): avoid is the open set that guards the
\* element alternative, withCdata tells whether cdata is one of the alternatives
manyNodes(inp, pos, fs, avoid, withCdata, acc) ==
  LET t == parse(Parser("text"), inp, pos, fs)
  IN  IF t.success
        THEN manyNodes(inp, t.position, fs, avoid, withCdata, Append(acc, t.value))
      ELSE
        LET e == IF openTagAhead(inp, pos, avoid)
                   THEN Failure(Msg("Expected no open tag of the open set"), pos, fs)
                   ELSE parse(Parser("element"), inp, pos, fs)
        IN  IF e.success
              THEN manyNodes(inp, e.position, e.fs, avoid, withCdata,
                             Append(acc, e.value))
            ELSE
              LET c == IF withCdata THEN parse(Parser("cdata"), inp, pos, fs)
                       ELSE Err(Msg("no cdata alternative"), pos)
                  m == parse(Parser("comment"), inp, pos, fs)
              IN  IF c.success
                    THEN manyNodes(inp, c.position, e.fs, avoid, withCdata,
                                   Append(acc, c.value))
                  ELSE IF m.success
                    THEN manyNodes(inp, m.position, e.fs, avoid, withCdata,
                                   Append(acc, m.value))
                  ELSE Success(acc, pos, e.fs)

\* src/parser.ts:444 element
element(inp, pos, fs) ==
  LET openTag == parse(Parser("startTag"), inp, pos, fs)
  IN  IF ~openTag.success THEN openTag
      ELSE
        LET name == openTag.value.tagName
            kind == openTag.value.kind
            p == openTag.position
        IN  IF openTag.value.selfClosing
              THEN IF voidEndTagAhead(inp, p, name)
                     THEN Failure(Msg("Unexpected end tag"), p, openTag.fs)
                     ELSE openTag
            ELSE
              LET childrenElements ==
                    IF kind = "RAW_TEXT" \/ kind = "ESCAPABLE_RAW_TEXT"
                      THEN LET r == parse([name |-> "rawText", tagName |-> name],
                                          inp, p, openTag.fs)
                           IN  Success(r.value, r.position, openTag.fs)
                      ELSE parse([name |-> "childrenElementsParser",
                                  avoidOpenTags |-> omission(name).open,
                                  cdata |-> Len(openTag.fs) > 0],
                                 inp, p, openTag.fs)
                  res == parse([name |-> "endTagParser", tagName |-> name],
                               inp, childrenElements.position, childrenElements.fs)
                  elementNode == [tagName |-> name, kind |-> kind,
                                  attributes |-> openTag.value.attributes,
                                  children |-> childrenElements.value]
              IN  IF ~res.success
                    THEN Failure(res.message, res.position, childrenElements.fs)
                    ELSE Success(elementNode, res.position,
                                 IF name = SVG \/ name = MATH
                                   THEN SubSeq(childrenElements.fs, 1,
                                               Len(childrenElements.fs) - 1)
                                   ELSE childrenElements.fs)

\* src/parser.ts:592 fragments
fragments(inp, pos, fs) ==
  parse([name |-> "childrenElementsParser", avoidOpenTags |-> << >>, cdata |-> FALSE],
        inp, pos, fs)

(***************************************************************************)
(* Document and shadow-root parsers                                        *)
(***************************************************************************)
\* whitespaces.map(textNode): a text node even when no whitespace stands at pos
whitespaceOnlyText(inp, pos) ==
  LET e == whitespaces(inp, pos)
  IN  Ok(textNode(SubSeq(inp, pos, e - 1)), e)

RECURSIVE sepByComment(_, _, _)
\* the tail of sepBy(comment, whitespaces): (whitespaces comment)*, separators dropped
sepByComment(inp, pos, acc) ==
  LET c == comment(inp, whitespaces(inp, pos))
  IN  IF c.success THEN sepByComment(inp, c.position, Append(acc, c.value))
      ELSE Ok(acc, pos)

\* spacesAndComments without the whitespace text after the comments
spacesAndCommentsButAfter(inp, pos) ==
  LET before == whitespaceOnlyText(inp, pos)
      c == comment(inp, before.position)
      comments == IF c.success THEN sepByComment(inp, c.position, <<c.value>>)
                  ELSE Ok(<< >>, before.position)
      after == whitespaceOnlyText(inp, comments.position)
  IN  Ok(<<before.value>> \o comments.value, after.position)

spacesAndComments(inp, pos) ==
  LET before == whitespaceOnlyText(inp, pos)
      c == comment(inp, before.position)
      comments == IF c.success THEN sepByComment(inp, c.position, <<c.value>>)
                  ELSE Ok(<< >>, before.position)
      after == whitespaceOnlyText(inp, comments.position)
  IN  Ok(<<before.value>> \o comments.value \o <<after.value>>, after.position)

DOCTYPE == <<"<", "!", "D", "O", "C", "T", "Y", "P", "E">>

HTML == <<"h", "t", "m", "l">>

DOCTYPE_HTML ==
  <<"<", "!", "D", "O", "C", "T", "Y", "P", "E", " ", "h", "t", "m", "l", ">">>

\* a doctype read as doctype reads it, but with \s* between <!DOCTYPE and html
doctypeOptionalSpace(inp, pos) ==
  LET p2 == whitespaces(inp, pos + Len(DOCTYPE))
      p3 == whitespaces(inp, p2 + Len(HTML))
  IN  IF /\ namePattern(inp, pos, DOCTYPE)
         /\ namePattern(inp, p2, HTML)
         /\ literal(inp, p3, <<">">>)
        THEN Ok(textNode(DOCTYPE_HTML), p3 + 1)
        ELSE Err(Msg("Expected a valid doctype"), pos)

doctype(inp, pos) ==
  LET p1 == pos + Len(DOCTYPE)
      p2 == whitespaces(inp, p1)
      p3 == whitespaces(inp, p2 + Len(HTML))
  IN  IF /\ namePattern(inp, pos, DOCTYPE)
         /\ p2 > p1
         /\ namePattern(inp, p2, HTML)
         /\ literal(inp, p3, <<">">>)
        THEN Ok(textNode(DOCTYPE_HTML), p3 + 1)
        ELSE Err(Msg("Expected a valid doctype"), pos)

\* src/parser.ts:689 html
html(inp, pos, fs) ==
  LET s1 == parse(Parser("spacesAndComments"), inp, pos, fs)
      d == parse(Parser("doctype"), inp, s1.position, fs)
  IN  IF ~d.success THEN Failure(d.message, d.position, fs)
      ELSE
        LET s2 == parse(Parser("spacesAndComments"), inp, d.position, fs)
            e == parse(Parser("element"), inp, s2.position, fs)
        IN  IF ~e.success THEN e
            ELSE LET s3 == parse(Parser("spacesAndComments"), inp, e.position, e.fs)
                 IN  Success(s1.value \o <<d.value>> \o s2.value \o <<e.value>>
                               \o s3.value,
                             s3.position, e.fs)

SHADOWROOTMODE ==
  <<"s", "h", "a", "d", "o", "w", "r", "o", "o", "t", "m", "o", "d", "e">>

OPEN == <<"o", "p", "e", "n">>

\* src/parser.ts:629 shadowRoot
\* shadowRoot looking for an attribute shadowrootmode of any value
shadowRootAnyMode(inp, pos, fs) ==
  LET s1 == parse(Parser("spacesAndComments"), inp, pos, fs)
      e == parse(Parser("element"), inp, s1.position, fs)
  IN  IF ~e.success THEN e
      ELSE IF e.value.tagName # TEMPLATE
        THEN Failure(Msg("Expected a template element"), pos, e.fs)
      ELSE IF ~\E i \in 1..Len(e.value.attributes) :
                 e.value.attributes[i][1] = SHADOWROOTMODE
        THEN Failure(Msg("Expected a declarative shadow root"), pos, e.fs)
      ELSE Success(s1.value \o <<e.value>>, e.position, e.fs)

shadowRoot(inp, pos, fs) ==
  LET s1 == parse(Parser("spacesAndComments"), inp, pos, fs)
      e == parse(Parser("element"), inp, s1.position, fs)
  IN  IF ~e.success THEN e
      ELSE IF e.value.tagName # TEMPLATE
        THEN Failure(Msg("Expected a template element"), pos, e.fs)
      ELSE IF ~Includes(e.value.attributes, <<SHADOWROOTMODE, OPEN>>)
        THEN Failure(Msg("Expected a declarative shadow root"), pos, e.fs)
      ELSE Success(s1.value \o <<e.value>>, e.position, e.fs)

\* parser.parse(input, position): runs the parser p names on inp from pos
parse(p, inp, pos, fs) ==
  CASE p.name = "comment" -> comment(inp, pos)
    [] p.name = "text" -> text(inp, pos)
    [] p.name = "cdata" -> cdata(inp, pos)
    [] p.name = "customElementName" -> customElementName(inp, pos)
    [] p.name = "tagName" -> tagName(inp, pos, fs)
    [] p.name = "many(attribute)" -> manyAttributes(inp, pos, << >>)
    [] p.name = "startTag" -> startTag(inp, pos, fs)
    [] p.name = "rawText" -> rawText(inp, pos, p.tagName)
    [] p.name = "endTagParser" -> endTagParser(inp, pos, p.tagName)
    [] p.name = "childrenElementsParser" ->
         manyNodes(inp, pos, fs, p.avoidOpenTags, p.cdata, << >>)
    [] p.name = "element" -> element(inp, pos, fs)
    [] p.name = "fragments" -> fragments(inp, pos, fs)
    [] p.name = "spacesAndComments" -> spacesAndComments(inp, pos)
    [] p.name = "doctype" -> doctype(inp, pos)
    [] p.name = "html" -> html(inp, pos, fs)
    [] p.name = "shadowRoot" -> shadowRoot(inp, pos, fs)

(***************************************************************************)
(* Serializer                                                              *)
(***************************************************************************)
\* serializeAttribute with the choice of quotes the wrong way round
serializeAttributeSwappedQuotes(a) ==
  LET quotes == IF Includes(a[2], "\"") THEN "\"" ELSE "'"
  IN  IF Includes(booleanAttributes, a[1]) THEN a[1]
      ELSE a[1] \o <<"=", quotes>> \o a[2] \o <<quotes>>

\* serializeAttribute without the test of booleanAttributes
serializeAttributeAlwaysValue(a) ==
  LET quotes == IF Includes(a[2], "\"") THEN "'" ELSE "\""
  IN  a[1] \o <<"=", quotes>> \o a[2] \o <<quotes>>

\* one attribute [k, v] as serializeNode writes it
serializeAttribute(a) ==
  LET quotes == IF Includes(a[2], "\"") THEN "'" ELSE "\""
  IN  IF Includes(booleanAttributes, a[1]) THEN a[1]
      ELSE a[1] \o <<"=", quotes>> \o a[2] \o <<quotes>>

RECURSIVE join(_, _)
\* Array.prototype.join
join(strings, sep) ==
  IF Len(strings) = 0 THEN << >>
  ELSE IF Len(strings) = 1 THEN strings[1]
  ELSE strings[1] \o sep \o join(Tail(strings), sep)

RECURSIVE serializeNodeOptionsNotPassed(_, _)
\* serializeNode with the options not passed on to the children
serializeNodeOptionsNotPassed(node, removeComments) ==
  IF node.kind = "TEXT" THEN node.text
  ELSE IF node.kind = "COMMENT"
    THEN IF removeComments THEN << >>
         ELSE <<"<", "!", "-", "-">> \o node.text \o <<"-", "-", ">">>
  ELSE IF node.kind = "CDATA" THEN CDATA_OPEN \o node.text \o CDATA_CLOSE
  ELSE
    LET attributes == [i \in 1..Len(node.attributes) |->
                         serializeAttribute(node.attributes[i])]
        attributesString == IF Len(attributes) > 0
                              THEN <<" ">> \o join(attributes, <<" ">>)
                              ELSE << >>
        start == <<"<">> \o node.tagName \o attributesString \o <<">">>
        content == IF "children" \in DOMAIN node
                     THEN join([i \in 1..Len(node.children) |->
                                  serializeNodeOptionsNotPassed(node.children[i], FALSE)],
                               << >>)
                     ELSE << >>
    IN  IF "selfClosing" \in DOMAIN node /\ node.selfClosing THEN start
        ELSE start \o content \o <<"<", "/">> \o node.tagName \o <<">">>

RECURSIVE serializeNode(_, _)
\* src/parser.ts:767 serializeNode
serializeNode(node, removeComments) ==
  IF node.kind = "TEXT" THEN node.text
  ELSE IF node.kind = "COMMENT"
    THEN IF removeComments THEN << >>
         ELSE <<"<", "!", "-", "-">> \o node.text \o <<"-", "-", ">">>
  ELSE IF node.kind = "CDATA" THEN CDATA_OPEN \o node.text \o CDATA_CLOSE
  ELSE
    LET attributes == [i \in 1..Len(node.attributes) |->
                         serializeAttribute(node.attributes[i])]
        attributesString == IF Len(attributes) > 0
                              THEN <<" ">> \o join(attributes, <<" ">>)
                              ELSE << >>
        start == <<"<">> \o node.tagName \o attributesString \o <<">">>
        content == IF "children" \in DOMAIN node
                     THEN join([i \in 1..Len(node.children) |->
                                  serializeNode(node.children[i], removeComments)],
                               << >>)
                     ELSE << >>
    IN  IF "selfClosing" \in DOMAIN node /\ node.selfClosing THEN start
        ELSE start \o content \o <<"<", "/">> \o node.tagName \o <<">">>

\* serializeFragments with join() left at its default separator, a comma
serializeFragmentsDefaultJoin(fragment, removeComments) ==
  join([i \in 1..Len(fragment) |-> serializeNode(fragment[i], removeComments)],
       <<",">>)

\* src/parser.ts:837 serializeFragments
serializeFragments(fragment, removeComments) ==
  join([i \in 1..Len(fragment) |-> serializeNode(fragment[i], removeComments)], << >>)

(***************************************************************************)
(* The process: parser invocations share foreignStack; a successful result *)
(* may be serialized, and the serialization parsed again.                  *)
(***************************************************************************)
\* parser invocations of one process
MaxCalls == 2

\* pieces of a document written from Tokens
MaxTokens == 3

RECURSIVE Flatten(_)
Flatten(ss) == IF ss = << >> THEN << >> ELSE ss[1] \o Flatten(Tail(ss))

\* the sequences of at most n members of T
Seqs(T, n) == UNION {[1..k -> T] : k \in 0..n}

input == Flatten(pieces)

NoResult == [success |-> FALSE, message |-> Msg("no invocation yet"), position |-> 0]

\* the result without the stack, which lives in foreignStack
returned(r) == [f \in DOMAIN r \ {"fs"} |-> r[f]]

\* no result is held: the caller is about to call a parser
Idle == entry = "none" /\ calls < MaxCalls

\* the call returns r: the caller holds the result, the module the stack
Return(r) ==
  /\ result' = returned(r)
  /\ foreignStack' = r.fs
  /\ calls' = calls + 1

Invoke(name, ps) ==
  /\ Return(parse(Parser(name), Flatten(ps), 1, foreignStack))
  /\ pieces' = ps
  /\ entry' = name
  /\ output' = << >>
  /\ first' = << >>
  /\ UNCHANGED <<options, stepVars>>

\* element.parse(x), x written from the pieces of a document of D
ParseElement(D) == Idle /\ \E ps \in D : Invoke("element", ps)

\* fragments.parse(x)
ParseFragments(D) == Idle /\ \E ps \in D : Invoke("fragments", ps)

\* html.parse(x)
ParseHtml(D) == Idle /\ \E ps \in D : Invoke("html", ps)

\* shadowRoot.parse(x)
ParseShadowRoot(D) == Idle /\ \E ps \in D : Invoke("shadowRoot", ps)

\* the caller drops the result; the module keeps its foreignStack
Discard ==
  /\ entry # "none"
  /\ pieces' = << >>
  /\ entry' = "none"
  /\ result' = NoResult
  /\ output' = << >>
  /\ first' = << >>
  /\ options' = [removeComments |-> FALSE]
  /\ UNCHANGED <<foreignStack, calls, stepVars>>

\* the whole input was parsed
Complete(r, inp) == r.success /\ r.position = Len(inp) + 1

SerializeNode(rc) ==
  /\ entry = "element"
  /\ Complete(result, input)
  /\ output = << >>
  /\ output' = <<serializeNode(result.value, rc)>>
  /\ options' = [removeComments |-> rc]
  /\ UNCHANGED <<foreignStack, pieces, entry, result, first, calls, stepVars>>

SerializeFragments(rc) ==
  /\ entry \in {"fragments", "html", "shadowRoot"}
  /\ Complete(result, input)
  /\ output = << >>
  /\ output' = <<serializeFragments(result.value, rc)>>
  /\ options' = [removeComments |-> rc]
  /\ UNCHANGED <<foreignStack, pieces, entry, result, first, calls, stepVars>>

\* the serialization is parsed again by the same parser, in the same process
Reparse ==
  /\ output # << >>
  /\ ~options.removeComments
  /\ calls <= MaxCalls
  /\ Return(parse(Parser(entry), output[1], 1, foreignStack))
  /\ pieces' = output
  /\ first' = <<result>>
  /\ output' = << >>
  /\ UNCHANGED <<entry, options, stepVars>>

Init ==
  /\ foreignStack = << >>
  /\ pieces = << >>
  /\ entry = "none"
  /\ result = NoResult
  /\ output = << >>
  /\ options = [removeComments |-> FALSE]
  /\ first = << >>
  /\ calls = 0
  /\ frames = << >>
  /\ started = << >>

(***************************************************************************)
(* Spec: the four parsers on documents written from a few tags of every    *)
(* kind, in and out of foreign content                                     *)
(***************************************************************************)
Tokens ==
  { <<"<", "s", "v", "g", ">">>, <<"<", "/", "s", "v", "g", ">">>, <<"<", "s", "v", "g", "/", ">">>,
    <<"<", "P", ">", "<", "/", "P", ">">>, <<"<", "P", ">", "<", "!", "[", "C", "D", "A", "T", "A", "[", "x", "]", "]", ">", "<", "/", "P", ">">>,
    <<"<", "A", "-", "b", " ", "c", "=", "d", ">", "<", "/", "A", "-", "b", ">">>,
    <<"<", "!", "[", "C", "D", "A", "T", "A", "[", "x", "]", "]", ">">>,
    <<"<", "i", "n", "p", "u", "t", " ", "c", "h", "e", "c", "k", "e", "d", "=", "x", ">">>,
    <<"x">> }

Documents == Seqs(Tokens, MaxTokens)

\* a document: [prologue] [doctype] [root element] [epilogue]
HtmlDocuments ==
  { <<pre, dt, root, post>> :
      pre \in {<< >>, <<"BOM">>, <<"<", "!", "-", "-", "c", "-", "-", ">", " ">>},
      dt \in {<<"<", "!", "D", "O", "C", "T", "Y", "P", "E", " ", "h", "t", "m", "l", ">">>, <<"<", "!", "d", "o", "c", "t", "y", "p", "e", " ", " ", "H", "T", "M", "L", " ", ">">>, << >>},
      root \in {<<"<", "h", "t", "m", "l", ">", "<", "b", "o", "d", "y", ">", "<", "/", "b", "o", "d", "y", ">", "<", "/", "h", "t", "m", "l", ">">>, <<"<", "h", "t", "m", "l", ">", "<", "b", "o", "d", "y", ">">>, <<"<", "P", ">", "<", "/", "P", ">">>},
      post \in {<< >>, <<" ", "<", "!", "-", "-", "c", "-", "-", ">">>, <<"x">>} }

\* a shadow root: [prologue] [template start tag] [content] [end tag]
ShadowRootDocuments ==
  { <<pre, open, content, close>> :
      pre \in {<< >>, <<"<", "!", "-", "-", "c", "-", "-", ">", " ">>},
      open \in {<<"<", "t", "e", "m", "p", "l", "a", "t", "e", " ", "s", "h", "a", "d", "o", "w", "r", "o", "o", "t", "m", "o", "d", "e", "=", "\"", "o", "p", "e", "n", "\"", ">">>, <<"<", "t", "e", "m", "p", "l", "a", "t", "e", ">">>, <<"<", "P", ">">>},
      content \in {<< >>, <<"x">>},
      close \in {<<"<", "/", "t", "e", "m", "p", "l", "a", "t", "e", ">">>, <<"<", "/", "P", ">">>, << >>} }

Next ==
  \/ ParseElement(Documents)
  \/ ParseFragments(Documents)
  \/ ParseHtml(HtmlDocuments)
  \/ ParseShadowRoot(ShadowRootDocuments)
  \/ \E rc \in BOOLEAN : SerializeNode(rc)
  \/ \E rc \in BOOLEAN : SerializeFragments(rc)
  \/ Reparse
  \/ Discard

Spec == Init /\ [][Next]_vars

(***************************************************************************)
(* SpecFragments: fragments.parse and serializeFragments on documents that *)
(* are written as the serializer writes, or differ from it in one respect  *)
(***************************************************************************)
\* nodes of a document of FragmentDocuments
MaxNodes == 2

\* markup in the form serializeNode gives it
SerializedForms ==
  { <<"x">>, <<"<", "!", "-", "-", "c", "-", "-", ">">>, <<"<", "b", "r", ">">>, <<"<", "d", "i", "v", ">", "<", "b", "r", ">", "x", "<", "/", "d", "i", "v", ">">>,
    <<"<", "a", " ", "h", "r", "e", "f", "=", "\"", "#", "\"", " ", "t", "i", "t", "l", "e", "=", "'", "\"", "'", " ", "h", "i", "d", "d", "e", "n", ">", "x", "<", "/", "a", ">">>,
    <<"<", "s", "v", "g", ">", "<", "p", "a", "t", "h", " ", "d", "=", "\"", "M", "0", "\"", ">", "<", "/", "p", "a", "t", "h", ">", "<", "/", "s", "v", "g", ">">>,
    <<"<", "m", "y", "-", "e", "l", ">", "<", "/", "m", "y", "-", "e", "l", ">">>,
    <<"<", "s", "c", "r", "i", "p", "t", ">", "a", "<", "b", "<", "/", "s", "c", "r", "i", "p", "t", ">">> }

\* tag-name casing, attribute quoting style, attribute values of boolean attributes
\* and whitespace inside tags that serializeNode does not give
OtherForms ==
  { <<"<", "D", "I", "V", ">", "<", "/", "D", "I", "V", ">">>,
    <<"<", "a", " ", "h", "r", "e", "f", "=", "'", "#", "'", ">", "x", "<", "/", "a", ">">>,
    <<"<", "a", " ", "h", "r", "e", "f", "=", "#", ">", "x", "<", "/", "a", ">">>,
    <<"<", "a", " ", "h", "i", "d", "d", "e", "n", "=", "\"", "x", "\"", ">", "x", "<", "/", "a", ">">>,
    <<"<", "a", " ", " ", "h", "r", "e", "f", "=", "\"", "#", "\"", " ", ">", "x", "<", "/", "a", " ", ">">> }

\* an element that leaves its end tag out
OmissionForms == { <<"<", "p", ">", "x">> }

\* a self-closing slash on a void element
VoidSlashForms == { <<"<", "b", "r", "/", ">">> }

\* a self-closing slash on a foreign element
ForeignSlashForms == { <<"<", "s", "v", "g", "/", ">">> }

FragmentForms ==
  SerializedForms \cup OtherForms \cup OmissionForms \cup VoidSlashForms
    \cup ForeignSlashForms

FragmentDocuments == Seqs(FragmentForms, MaxNodes)

NextFragments ==
  \/ ParseFragments(FragmentDocuments)
  \/ \E rc \in BOOLEAN : SerializeFragments(rc)
  \/ Reparse
  \/ Discard

SpecFragments == Init /\ [][NextFragments]_vars

Range(s) == {s[i] : i \in 1..Len(s)}

\* serializeFragments(fragments.parse(x)) with the default options is at hand
Serialized == entry = "fragments" /\ output # << >> /\ ~options.removeComments

\* C1 as stated: for every input x on which fragments.parse succeeds and that has no
\* end-tag omission, (no doctype,) and no self-closing slash on a void or normal
\* element, serializeFragments(fragments.parse(x)) equals x character for character
C1_AsStated ==
  (Serialized /\ Range(pieces) \cap (OmissionForms \cup VoidSlashForms) = {})
    => output[1] = input

\* C1, amended: the round trip holds when x is, besides, written in the form of the
\* serializer: lower-case tag names, each attribute after one space as name="value"
\* (name='value' when the value holds a double quote) or as the bare name of a
\* boolean attribute, no other whitespace inside tags, no self-closing slash at all
C1_RoundTrip ==
  (Serialized /\ Range(pieces) \subseteq SerializedForms) => output[1] = input

\* a document of two elements, attributes of every rendering among them, came back
C1_Witness ==
  /\ Serialized
  /\ pieces = << <<"<", "d", "i", "v", ">", "<", "b", "r", ">", "x", "<", "/", "d", "i", "v", ">">>, <<"<", "a", " ", "h", "r", "e", "f", "=", "\"", "#", "\"", " ", "t", "i", "t", "l", "e", "=", "'", "\"", "'", " ", "h", "i", "d", "d", "e", "n", ">", "x", "<", "/", "a", ">">> >>
  /\ output[1] = input

(***************************************************************************)
(* Trees                                                                   *)
(***************************************************************************)
\* the nodes a result holds: the element, or the nodes of the fragment
Tree(r) == IF entry = "element" THEN <<r.value>> ELSE r.value

IsElement(n) == "tagName" \in DOMAIN n

childrenOf(n) == IF "children" \in DOMAIN n THEN n.children ELSE << >>

isSelfClosing(n) == "selfClosing" \in DOMAIN n /\ n.selfClosing

isForeignRoot(n) == n.tagName = SVG \/ n.tagName = MATH

RECURSIVE elementsOf(_, _)
\* the elements of a forest in document order, each with whether an svg or math
\* element is among its ancestors
elementsOf(nodes, inForeign) ==
  IF nodes = << >> THEN << >>
  ELSE LET n == nodes[1]
       IN  (IF IsElement(n)
              THEN <<[node |-> n, inForeign |-> inForeign]>>
                     \o elementsOf(childrenOf(n), inForeign \/ isForeignRoot(n))
              ELSE << >>)
             \o elementsOf(Tail(nodes), inForeign)

RECURSIVE cdataOutsideForeign(_)
\* some Cdata node of the forest has no svg or math element among its ancestors
cdataOutsideForeign(nodes) ==
  \E i \in 1..Len(nodes) :
    \/ nodes[i].kind = "CDATA"
    \/ /\ IsElement(nodes[i])
       /\ ~isForeignRoot(nodes[i])
       /\ cdataOutsideForeign(childrenOf(nodes[i]))

\* an attribute of the boolean-attribute list that carries a value
hasBooleanWithValue(n) ==
  \E i \in 1..Len(n.attributes) :
    Includes(booleanAttributes, n.attributes[i][1]) /\ n.attributes[i][2] # << >>

(***************************************************************************)
(* Claims on Spec                                                          *)
(***************************************************************************)
\* the serialization of a first tree was parsed again, by element or by fragments
Reparsed == first # << >> /\ entry \in {"element", "fragments"}

SameTreeAgain == Complete(result, input) /\ result.value = first[1].value

\* C2 as stated: parsing the serialization of a parsed tree succeeds and gives an
\* equal tree, for element and fragments alike, boolean attributes that carry a value
\* and self-closing foreign elements included
C2_AsStated == Reparsed => SameTreeAgain

\* C2, amended: parse(serialize(parse(x))) = parse(x) for the trees that hold no
\* boolean attribute with a value and no self-closing foreign element
C2_Idempotent ==
  (/\ Reparsed
   /\ \A i \in 1..Len(elementsOf(Tree(first[1]), FALSE)) :
        LET n == elementsOf(Tree(first[1]), FALSE)[i].node
        IN  ~hasBooleanWithValue(n) /\ ~(n.kind = "FOREIGN" /\ isSelfClosing(n)))
    => SameTreeAgain

\* a fragment whose svg element holds an element with an attribute was parsed again
\* from its serialization, to an equal tree
C2_Witness ==
  /\ Reparsed
  /\ entry = "fragments"
  /\ SameTreeAgain
  /\ \E i \in 1..Len(elementsOf(result.value, FALSE)) :
       /\ elementsOf(result.value, FALSE)[i].inForeign
       /\ elementsOf(result.value, FALSE)[i].node.attributes # << >>

\* the names written in the start tags of a token, in order
startTagNames(token) ==
  CASE token \in {<<"<", "s", "v", "g", ">">>, <<"<", "s", "v", "g", "/", ">">>} -> <<SVG>>
    [] token \in {<<"<", "P", ">", "<", "/", "P", ">">>, <<"<", "P", ">", "<", "!", "[", "C", "D", "A", "T", "A", "[", "x", "]", "]", ">", "<", "/", "P", ">">>} -> <<<<"P">>>>
    [] token = <<"<", "A", "-", "b", " ", "c", "=", "d", ">", "<", "/", "A", "-", "b", ">">> -> <<<<"A", "-", "b">>>>
    [] token = <<"<", "i", "n", "p", "u", "t", " ", "c", "h", "e", "c", "k", "e", "d", "=", "x", ">">> -> <<<<"i", "n", "p", "u", "t">>>>
    [] OTHER -> << >>

RECURSIVE sourceNames(_)
sourceNames(ps) ==
  IF ps = << >> THEN << >> ELSE startTagNames(ps[1]) \o sourceNames(Tail(ps))

\* a document of Documents was parsed to its end, by element or by fragments
Parsed ==
  /\ entry \in {"element", "fragments"}
  /\ Range(pieces) \subseteq Tokens
  /\ Complete(result, input)

\* C6 as stated: the tagName of every parsed element is the source name in lower case
\* outside svg/math subtrees and the source name verbatim below an svg or math
\* element, for plain and for custom-element names
C6_AsStated ==
  Parsed =>
    LET es == elementsOf(Tree(result), FALSE)
        names == sourceNames(pieces)
    IN  /\ Len(es) = Len(names)
        /\ \A i \in 1..Len(es) :
             es[i].node.tagName =
               IF es[i].inForeign THEN names[i] ELSE toLowerCase(names[i])

\* C7 as stated: in every tree a successful parse returns, each Cdata node has an
\* svg or math element among its ancestors, whatever was parsed before it
C7_AsStated ==
  (entry # "none" /\ result.success) => ~cdataOutsideForeign(Tree(result))

(***************************************************************************)
(* SpecElement: element.parse on start tags with attributes, on void       *)
(* elements followed by an end tag, on raw text elements and on lists that *)
(* leave end tags out                                                      *)
(***************************************************************************)
\* attributes of a start tag of StartTagDocuments
MaxAttributes == 2

\* pieces of the body of a document of RawTextDocuments
MaxBody == 2

\* tokens inside the list of a document of OmissionDocuments
MaxItems == 4

toUpperChar(c) ==
  IF Includes(LowerCase, c)
    THEN UpperCase[CHOOSE i \in 1..Len(LowerCase) : LowerCase[i] = c]
    ELSE c

toUpperCase(s) == [i \in 1..Len(s) |-> toUpperChar(s[i])]

\* the end tag of name, as written
endTag(name) == <<"<", "/">> \o name \o <<">">>

\* a tag name of every element kind, a custom element name, an upper-case name
StartTagNames ==
  { <<"d", "i", "v">>, <<"m", "y", "-", "e", "l">>, <<"i", "n", "p", "u", "t">>, <<"I", "M", "G">>, <<"s", "v", "g">>, <<"t", "e", "m", "p", "l", "a", "t", "e">>, <<"s", "c", "r", "i", "p", "t">>, <<"t", "e", "x", "t", "a", "r", "e", "a">> }

\* an attribute as written after the tag name or another attribute, and the pair
\* that stands for it
AttributeForms ==
  { [written |-> <<" ", "a", "=", "\"", "b", " ", "c", "\"">>, name |-> <<"a">>, value |-> <<"b", " ", "c">>, unquoted |-> FALSE],
    [written |-> <<" ", "a", "=", "'", "\"", "'">>, name |-> <<"a">>, value |-> <<"\"">>, unquoted |-> FALSE],
    [written |-> <<" ", "A", "=", "b">>, name |-> <<"A">>, value |-> <<"b">>, unquoted |-> TRUE],
    [written |-> <<" ", "k", " ", "=", " ", "v">>, name |-> <<"k">>, value |-> <<"v">>, unquoted |-> TRUE],
    [written |-> <<" ", "c", "h", "e", "c", "k", "e", "d">>, name |-> <<"c", "h", "e", "c", "k", "e", "d">>, value |-> << >>,
     unquoted |-> FALSE] }

AttributePieces == {f.written : f \in AttributeForms}

StartTagEnds == { <<">">>, <<"/", ">">>, <<" ", "/", ">">> }

\* a start tag, alone or followed by the end tag of its name
StartTagDocuments ==
  { <<<<"<">>, name>> \o attrs \o <<end>> \o (IF closed THEN <<endTag(name)>> ELSE << >>) :
      name \in StartTagNames,
      attrs \in Seqs(AttributePieces, MaxAttributes),
      end \in StartTagEnds,
      closed \in BOOLEAN }

\* what follows a void start tag: nothing, its end tag, another end tag, text
afterVoid(name, c) ==
  CASE c = 0 -> << >>
    [] c = 1 -> endTag(name)
    [] c = 2 -> <<"<", "/", "d", "i", "v", ">">>
    [] c = 3 -> <<"x">>

\* a void start tag, whitespace, and what follows
VoidDocuments ==
  { <<<<"<">>, name, a, end, ws, afterVoid(name, c)>> :
      name \in Range(voidElements),
      a \in {<< >>, <<" ", "t", "y", "p", "e", "=", "\"", "t", "e", "x", "t", "\"">>},
      end \in {<<">">>, <<"/", ">">>},
      ws \in {<< >>, <<" ">>, <<"\n", " ">>},
      c \in 0..3 }

RawTextNames == Range(rawTextElements) \cup Range(escapableRawTextElements)

\* pieces of a body in which no end tag of T stands
BodyPieces(T) ==
  { <<"a">>, <<"<">>, <<"<", "/">>, <<"\n">>, <<"\r">>, <<"<", "/">> \o T \o <<"x">> }

\* end tags of T
CloseForms(T) ==
  { endTag(T), <<"<", "/">> \o toUpperCase(T) \o <<" ", ">">>, <<"<", "/">> \o T \o <<"\t", ">">> }

\* <T>, a body, an end tag of T, and nothing or more text and another end tag
RawTextDocuments ==
  UNION { { <<<<"<">>, T, <<">">>>> \o body \o <<close, rest>> :
              body \in Seqs(BodyPieces(T), MaxBody),
              close \in CloseForms(T),
              rest \in {<< >>, <<"x">> \o endTag(T)} } :
          T \in RawTextNames }

\* the tokens of a list, with the kind of token and the tag name
OmissionTokens ==
  { [written |-> <<"<", "b", "o", "d", "y", ">">>, type |-> "start", name |-> <<"b", "o", "d", "y">>],
    [written |-> <<"<", "u", "l", ">">>, type |-> "start", name |-> <<"u", "l">>],
    [written |-> <<"<", "/", "u", "l", ">">>, type |-> "end", name |-> <<"u", "l">>],
    [written |-> <<"<", "l", "i", ">">>, type |-> "start", name |-> <<"l", "i">>],
    [written |-> <<"<", "/", "l", "i", ">">>, type |-> "end", name |-> <<"l", "i">>],
    [written |-> <<"<", "l", "i", "n", "k", ">">>, type |-> "void", name |-> <<"l", "i", "n", "k">>],
    [written |-> <<"A">>, type |-> "text", name |-> << >>] }

OmissionItems == { <<"<", "l", "i", ">">>, <<"<", "/", "l", "i", ">">>, <<"<", "l", "i", "n", "k", ">">>, <<"A">> }

\* a list, alone or in a body that is left open
OmissionDocuments ==
  { pre \o <<<<"<", "u", "l", ">">>>> \o items \o <<<<"<", "/", "u", "l", ">">>>> :
      pre \in {<< >>, <<<<"<", "b", "o", "d", "y", ">">>>>},
      items \in Seqs(OmissionItems, MaxItems) }

ElementDocuments ==
  StartTagDocuments \cup VoidDocuments \cup RawTextDocuments \cup OmissionDocuments

NextElement ==
  \/ ParseElement(ElementDocuments)
  \/ Discard

SpecElement == Init /\ [][NextElement]_vars


(***************************************************************************)
(* Properties of element.parse on the documents of SpecElement             *)
(***************************************************************************)
\* the parts of a document of StartTagDocuments
startTagEnd(ps) == CHOOSE i \in 1..Len(ps) : ps[i] \in StartTagEnds

writtenName(ps) == ps[2]

writtenAttributes(ps) == SubSeq(ps, 3, startTagEnd(ps) - 1)

afterStartTag(ps) == SubSeq(ps, startTagEnd(ps) + 1, Len(ps))

attributeForm(piece) == CHOOSE f \in AttributeForms : f.written = piece

\* the last attribute has an unquoted value and "/>" follows it directly
slashAfterUnquoted(ps) ==
  /\ ps[startTagEnd(ps)] = <<"/", ">">>
  /\ writtenAttributes(ps) # << >>
  /\ attributeForm(ps[startTagEnd(ps) - 1]).unquoted

\* the start tag ends in "/>"
endsInSlash(ps) ==
  ps[startTagEnd(ps)] \in {<<"/", ">">>, <<" ", "/", ">">>} /\ ~slashAfterUnquoted(ps)

\* the kind of the element of a start tag read with an empty foreign stack
kindOf(name) == elementKind(toLowerCase(name), << >>).kind

\* one pair per attribute written, in the order written
expectedAttributes(ps) ==
  [i \in 1..Len(writtenAttributes(ps)) |->
     LET f == attributeForm(writtenAttributes(ps)[i])
     IN  <<f.name,
           IF i = Len(writtenAttributes(ps)) /\ slashAfterUnquoted(ps)
             THEN f.value \o <<"/">>
             ELSE f.value>>]

C5_AsStated ==
  (entry = "element" /\ pieces \in VoidDocuments)
    => IF pieces[6] = endTag(pieces[2])
         THEN /\ ~result.success
              /\ result.message.text = "Unexpected end tag on a void element"
         ELSE result.success

\* C8: for every start tag that parses, the attributes of the element are one
\* (name, value) pair per attribute written, in source order, duplicate names kept,
\* the name in the casing written, the value the characters between the quotes or the
\* unquoted run, and the empty value for a bare attribute name
C8_Attributes ==
  (entry = "element" /\ pieces \in StartTagDocuments /\ result.success)
    => result.value.attributes = expectedAttributes(pieces)

\* <div A=b a='"'></div> gave the pairs (A, b) and (a, ")
C8_Witness ==
  /\ entry = "element"
  /\ pieces = <<<<"<">>, <<"d", "i", "v">>, <<" ", "A", "=", "b">>,
                <<" ", "a", "=", "'", "\"", "'">>, <<">">>, <<"<", "/", "d", "i", "v", ">">>>>
  /\ result.success
  /\ result.value.attributes = << <<<<"A">>, <<"b">>>>, <<<<"a">>, <<"\"">>>> >>

\* the tag name of the start tag is read as that of a void element; a start tag of
\* StartTagDocuments leaves foreignStack as it finds it, but for the name svg, which
\* is no void element with any stack
readAsVoid(ps) ==
  Includes(voidElements,
           parse(Parser("tagName"), writtenName(ps), 1, foreignStack).value)

\* C9: when the last attribute of a start tag has an unquoted value directly followed
\* by "/>", the "/" belongs to the value and the tag carries no self-closing slash: a
\* void element comes back with kind VOID and the value ending in "/"; any other
\* element is an open start tag, which fails without its end tag (and not for a
\* self-closing slash) and with its end tag comes back with children, not self-closing
C9_SlashInValue ==
  (entry = "element" /\ pieces \in StartTagDocuments /\ slashAfterUnquoted(pieces))
    => /\ result.success =>
            result.value.attributes[Len(result.value.attributes)][2]
              = attributeForm(pieces[startTagEnd(pieces) - 1]).value \o <<"/">>
       /\ IF readAsVoid(pieces)
            THEN afterStartTag(pieces) = << >> =>
                   result.success /\ result.value.kind = "VOID"
            ELSE IF afterStartTag(pieces) = << >>
              THEN /\ ~result.success
                   /\ result.message
                        # Msg("Unexpected self-closing tag on a non-void element")
              ELSE /\ result.success
                   /\ ~isSelfClosing(result.value)
                   /\ "children" \in DOMAIN result.value

\* <input A=b/> came back as a void element with the attribute (A, b/)
C9_Witness ==
  /\ entry = "element"
  /\ pieces = <<<<"<">>, <<"i", "n", "p", "u", "t">>, <<" ", "A", "=", "b">>, <<"/", ">">>>>
  /\ result.success
  /\ result.value.kind = "VOID"
  /\ result.value.attributes = << <<<<"A">>, <<"b", "/">>>> >>

\* the parts of a document of RawTextDocuments
rawTextBody(ps) == Flatten(SubSeq(ps, 4, Len(ps) - 2))

\* C10 as stated: for every RAW_TEXT or ESCAPABLE_RAW_TEXT element with tag T the
\* children are empty when the body is empty and otherwise one Text node whose text is
\* the whole input between the start tag and the first end tag of T, whatever
\* characters the body holds ("<", "</", carriage returns, line feeds)
C10_AsStated ==
  (entry = "element" /\ pieces \in RawTextDocuments)
    => /\ result.success
       /\ result.position = Len(Flatten(SubSeq(pieces, 1, Len(pieces) - 1))) + 1
       /\ result.value.children =
            IF rawTextBody(pieces) = << >> THEN << >>
            ELSE <<textNode(rawTextBody(pieces))>>

omissionToken(piece) == CHOOSE t \in OmissionTokens : t.written = piece

RECURSIVE expand(_, _, _)

\* the tokens ps written out with every omitted end tag in its place: open is the
\* stack of the elements that are open, out the text so far; an element E is closed
\* before a start tag of its open set, before an end tag of its closed set, and at
\* the end of input when its entry of the table allows that
expand(ps, open, out) ==
  LET top == open[Len(open)]
      pop == SubSeq(open, 1, Len(open) - 1)
      illFormed == [ok |-> FALSE, text |-> out]
  IN  IF ps = << >>
        THEN IF open = << >> THEN [ok |-> TRUE, text |-> out]
             ELSE IF omission(top).regex THEN expand(ps, pop, out \o endTag(top))
             ELSE illFormed
      ELSE
        LET t == omissionToken(ps[1])
        IN  IF open = << >> /\ out # << >> THEN illFormed
            ELSE IF t.type = "text" THEN expand(Tail(ps), open, out \o t.written)
            ELSE IF t.type = "end"
              THEN IF open = << >> THEN illFormed
                   ELSE IF top = t.name THEN expand(Tail(ps), pop, out \o t.written)
                   ELSE IF Includes(omission(top).closed, t.name)
                     THEN expand(ps, pop, out \o endTag(top))
                   ELSE illFormed
            ELSE IF open # << >> /\ Includes(omission(top).open, t.name)
              THEN expand(ps, pop, out \o endTag(top))
            ELSE expand(Tail(ps),
                        IF t.type = "start" THEN Append(open, t.name) ELSE open,
                        out \o t.written)

expanded(ps) == expand(ps, << >>, << >>)

\* C3 as stated: for every input whose elements omit end tags according to the
\* end-tag-omission table, element parsing succeeds and serializeNode of the result is
\* the input with an explicit end tag inserted for each omitted one, immediately before
\* the token that implied the closure, every other character being unchanged
C3_AsStated ==
  (/\ entry = "element"
   /\ pieces \in OmissionDocuments
   /\ expanded(pieces).ok
   /\ expanded(pieces).text # input)
    => /\ Complete(result, input)
       /\ serializeNode(result.value, FALSE) = expanded(pieces).text

(***************************************************************************)
(* SpecLexers: comment.parse and doctype.parse, which read no tag and      *)
(* leave foreignStack alone                                                *)
(***************************************************************************)
\* pieces of the body of a document of CommentDocuments
MaxComment == 3

\* a call of a parser that does not touch foreignStack
InvokeLexer(name, ps) ==
  /\ Return([fs |-> foreignStack] @@ parse(Parser(name), Flatten(ps), 1, foreignStack))
  /\ pieces' = ps
  /\ entry' = name
  /\ output' = << >>
  /\ first' = << >>
  /\ UNCHANGED <<options, stepVars>>

\* comment.parse(x)
ParseComment(D) == Idle /\ \E ps \in D : InvokeLexer("comment", ps)

COMMENT_OPEN == <<"<", "!", "-", "-">>

COMMENT_CLOSE == <<"-", "-", ">">>

\* what the restrictions on a comment body are about, and plain characters
CommentPieces == { <<">">>, <<"-", ">">>, <<"<", "!", "-", "-">>, <<"-", "-", "!", ">">>, <<"<", "!", "-">>, <<"<", "!">>, <<"-">>, <<"a">> }

\* <!--, a body, and nothing, --> or --> and more text
CommentDocuments ==
  { <<COMMENT_OPEN>> \o body \o close :
      body \in Seqs(CommentPieces, MaxComment),
      close \in {<< >>, <<COMMENT_CLOSE>>, <<COMMENT_CLOSE, <<"x">>>>} }

\* s holds lit somewhere
contains(s, lit) == \E q \in 1..Len(s) : literal(s, q, lit)

startsWith(s, lit) == literal(s, 1, lit)

endsWith(s, lit) == Len(s) >= Len(lit) /\ literal(s, Len(s) - Len(lit) + 1, lit)

\* the positions after <!-- where a --> stands
closings(inp) == {q \in Len(COMMENT_OPEN) + 1..Len(inp) : literal(inp, q, COMMENT_CLOSE)}

\* the characters between <!-- and the closing -->
commentBody(inp) == SubSeq(inp, Len(COMMENT_OPEN) + 1, Min(closings(inp)) - 1)

\* a body that the restrictions on comments forbid
offending(s) ==
  \/ startsWith(s, <<">">>)
  \/ startsWith(s, <<"-", ">">>)
  \/ contains(s, COMMENT_OPEN)
  \/ contains(s, COMMENT_CLOSE)
  \/ contains(s, <<"-", "-", "!", ">">>)
  \/ endsWith(s, <<"<", "!", "-">>)

\* C11: the text of every Comment node that comment.parse gives is the characters
\* between <!-- and the closing -->; it does not start with > or ->, holds no <!--,
\* --> or --!> and does not end with <!- ; an input whose body between <!-- and the
\* closing --> offends one of these restrictions gives no Comment node
C11_CommentText ==
  (entry = "comment" /\ pieces \in CommentDocuments)
    => /\ result.success =>
            /\ closings(input) # {}
            /\ result.value = commentNode(commentBody(input))
            /\ result.position = Min(closings(input)) + Len(COMMENT_CLOSE)
            /\ ~offending(result.value.text)
       /\ (closings(input) = {} \/ offending(commentBody(input))) => ~result.success

\* <!--a<!--> gave a Comment node whose text ends with <!
C11_Witness ==
  /\ entry = "comment"
  /\ pieces = <<COMMENT_OPEN, <<"a">>, <<"<", "!">>, COMMENT_CLOSE>>
  /\ result.success
  /\ result.value.text = <<"a", "<", "!">>

\* doctype.parse(x)
ParseDoctype(D) == Idle /\ \E ps \in D : InvokeLexer("doctype", ps)

\* <!DOCTYPE, whitespace, html, whitespace, > and what follows, each as it should
\* be, in another letter case, or not as it should be
DoctypeDocuments ==
  { <<keyword, space, name, more, end, rest>> :
      keyword \in {<<"<", "!", "D", "O", "C", "T", "Y", "P", "E">>, <<"<", "!", "d", "o", "c", "t", "y", "p", "e">>, <<"<", "!", "D", "o", "c", "T", "y", "p", "e">>, <<"<", "!", "D", "O", "C", "T", "Y", "P">>, <<"<", "D", "O", "C", "T", "Y", "P", "E">>},
      space \in {<< >>, <<" ">>, <<"\n", "\t">>, <<"x">>},
      name \in {<<"h", "t", "m", "l">>, <<"H", "T", "M", "L">>, <<"H", "t", "m", "l">>, <<"h", "t", "m">>, <<"x", "h", "t", "m", "l">>, <<"h", "t", "m", "l", "5">>},
      more \in {<< >>, <<" ">>, <<" ", "\n">>, <<"x">>},
      end \in {<<">">>, << >>, <<"/", ">">>},
      rest \in {<< >>, <<"<", "h", "t", "m", "l", ">">>} }

\* every character of s is whitespace
isWhitespace(s) == \A i \in 1..Len(s) : IsSpace(s[i])

\* the document starts with <!DOCTYPE, one or more whitespace characters, html,
\* optional whitespace and >, in any letter case
validDoctype(ps) ==
  /\ toLowerCase(ps[1]) = toLowerCase(DOCTYPE)
  /\ ps[2] # << >> /\ isWhitespace(ps[2])
  /\ toLowerCase(ps[3]) = HTML
  /\ isWhitespace(ps[4])
  /\ ps[5] = <<">">>

\* C12: doctype.parse succeeds exactly on the inputs that start with <!DOCTYPE, one or
\* more whitespace characters, html, optional whitespace and >, in any letter case; on
\* success it gives the text node <!DOCTYPE html> whatever the casing and spacing
\* written, and on every other input it fails with "Expected a valid doctype"
C12_Doctype ==
  (entry = "doctype" /\ pieces \in DoctypeDocuments)
    => IF validDoctype(pieces)
         THEN /\ result.success
              /\ result.value = textNode(<<"<", "!", "D", "O", "C", "T", "Y", "P", "E", " ", "h", "t", "m", "l", ">">>)
              /\ result.position = Len(Flatten(SubSeq(pieces, 1, 5))) + 1
         ELSE /\ ~result.success
              /\ result.message = Msg("Expected a valid doctype")

\* <!doctype, a line feed and a tab, Html, a space and > gave <!DOCTYPE html>
C12_Witness ==
  /\ entry = "doctype"
  /\ pieces = <<<<"<", "!", "d", "o", "c", "t", "y", "p", "e">>, <<"\n", "\t">>, <<"H", "t", "m", "l">>, <<" ">>, <<">">>, <<"<", "h", "t", "m", "l", ">">>>>
  /\ result.success
  /\ result.value = textNode(<<"<", "!", "D", "O", "C", "T", "Y", "P", "E", " ", "h", "t", "m", "l", ">">>)

NextLexers ==
  \/ ParseComment(CommentDocuments)
  \/ ParseDoctype(DoctypeDocuments)
  \/ Discard

SpecLexers == Init /\ [][NextLexers]_vars

(***************************************************************************)
(* SpecDocument: html.parse and serializeFragments on documents with a     *)
(* canonical doctype and whitespace and comments around it                 *)
(***************************************************************************)
\* what stands before the doctype, between doctype and root, and after the root
GapForms ==
  { << >>,
    <<<<" ">>>>,
    <<<<"<", "!", "-", "-", "c", "-", "-", ">">>>>,
    <<<<"\n">>, <<"<", "!", "-", "-", "c", "-", "-", ">">>, <<"\n", "\n">>>>,
    <<<<"<", "!", "-", "-", "c", "-", "-", ">">>, <<"<", "!", "-", "-", " ", "d", " ", "-", "-", ">">>>>,
    <<<<"<", "!", "-", "-", "c", "-", "-", ">">>, <<" ">>, <<"<", "!", "-", "-", " ", "d", " ", "-", "-", ">">>>> }

\* a root element in the form serializeNode gives it
SerializedRoots == { <<"<", "h", "t", "m", "l", " ", "l", "a", "n", "g", "=", "\"", "e", "n", "\"", ">", "<", "h", "e", "a", "d", ">", "<", "/", "h", "e", "a", "d", ">", "<", "b", "o", "d", "y", ">", "x", "<", "/", "b", "o", "d", "y", ">", "<", "/", "h", "t", "m", "l", ">">> }

\* a root element with an unquoted attribute value
OtherRoots == { <<"<", "h", "t", "m", "l", " ", "l", "a", "n", "g", "=", "e", "n", ">", "<", "h", "e", "a", "d", ">", "<", "/", "h", "e", "a", "d", ">", "<", "b", "o", "d", "y", ">", "x", "<", "/", "b", "o", "d", "y", ">", "<", "/", "h", "t", "m", "l", ">">> }

\* [BOM] [gap] <!DOCTYPE html> [gap] root [gap]
CanonicalDocuments ==
  { bom \o before \o <<DOCTYPE_HTML>> \o between \o <<root>> \o after :
      bom \in {<< >>, <<<<"BOM">>>>},
      before \in GapForms,
      between \in GapForms,
      root \in SerializedRoots \cup OtherRoots,
      after \in GapForms }

\* start tags of the element of a shadow root: the name in lower case and whether
\* the pair (shadowrootmode, open) is among the attributes
ShadowOpenForms ==
  { [written |-> <<"<", "t", "e", "m", "p", "l", "a", "t", "e", " ", "s", "h", "a", "d", "o", "w", "r", "o", "o", "t", "m", "o", "d", "e", "=", "\"", "o", "p", "e", "n", "\"", ">">>, name |-> TEMPLATE, open |-> TRUE],
    [written |-> <<"<", "t", "e", "m", "p", "l", "a", "t", "e", " ", "a", " ", "s", "h", "a", "d", "o", "w", "r", "o", "o", "t", "m", "o", "d", "e", "=", "'", "o", "p", "e", "n", "'", " ", "b", "=", "\"", "c", "\"", ">">>, name |-> TEMPLATE,
     open |-> TRUE],
    [written |-> <<"<", "T", "E", "M", "P", "L", "A", "T", "E", " ", "s", "h", "a", "d", "o", "w", "r", "o", "o", "t", "m", "o", "d", "e", "=", "o", "p", "e", "n", ">">>, name |-> TEMPLATE, open |-> TRUE],
    [written |-> <<"<", "t", "e", "m", "p", "l", "a", "t", "e", ">">>, name |-> TEMPLATE, open |-> FALSE],
    [written |-> <<"<", "t", "e", "m", "p", "l", "a", "t", "e", " ", "s", "h", "a", "d", "o", "w", "r", "o", "o", "t", "m", "o", "d", "e", "=", "\"", "c", "l", "o", "s", "e", "d", "\"", ">">>, name |-> TEMPLATE,
     open |-> FALSE],
    [written |-> <<"<", "t", "e", "m", "p", "l", "a", "t", "e", " ", "s", "h", "a", "d", "o", "w", "r", "o", "o", "t", "m", "o", "d", "e", "=", "\"", "O", "P", "E", "N", "\"", ">">>, name |-> TEMPLATE, open |-> FALSE],
    [written |-> <<"<", "t", "e", "m", "p", "l", "a", "t", "e", " ", "S", "h", "a", "d", "o", "w", "R", "o", "o", "t", "M", "o", "d", "e", "=", "\"", "o", "p", "e", "n", "\"", ">">>, name |-> TEMPLATE,
     open |-> FALSE],
    [written |-> <<"<", "t", "e", "m", "p", "l", "a", "t", "e", " ", "s", "h", "a", "d", "o", "w", "r", "o", "o", "t", "m", "o", "d", "e", ">">>, name |-> TEMPLATE, open |-> FALSE],
    [written |-> <<"<", "s", "p", "a", "n", " ", "s", "h", "a", "d", "o", "w", "r", "o", "o", "t", "m", "o", "d", "e", "=", "\"", "o", "p", "e", "n", "\"", ">">>, name |-> <<"s", "p", "a", "n">>, open |-> TRUE],
    [written |-> <<"<", "s", "p", "a", "n", ">">>, name |-> <<"s", "p", "a", "n">>, open |-> FALSE] }

\* [whitespace and comments] start tag [content] [end tag]
ShadowDocuments ==
  { <<before, f.written, content, IF closed THEN endTag(f.name) ELSE << >> >> :
      before \in {<< >>, <<" ">>, <<"<", "!", "-", "-", "c", "-", "-", ">", " ">>, <<"\n">> \o <<"<", "!", "-", "-", "c", "-", "-", ">", "<", "!", "-", "-", " ", "d", " ", "-", "-", ">">>},
      f \in ShadowOpenForms,
      content \in {<< >>, <<"<", "p", ">", "x", "<", "/", "p", ">">>, <<" ", "<", "s", "t", "y", "l", "e", ">", "h", "1", " ", "{", " ", "}", "<", "/", "s", "t", "y", "l", "e", ">", " ">>},
      closed \in BOOLEAN }

NextDocument ==
  \/ ParseHtml(CanonicalDocuments)
  \/ ParseShadowRoot(ShadowDocuments)
  \/ \E rc \in BOOLEAN : SerializeFragments(rc)
  \/ Discard

SpecDocument == Init /\ [][NextDocument]_vars

\* serializeFragments(html.parse(x)) with the default options is at hand
SerializedDocument ==
  /\ entry = "html"
  /\ pieces \in CanonicalDocuments
  /\ output # << >>
  /\ ~options.removeComments

isCommentPiece(piece) == startsWith(piece, COMMENT_OPEN)

\* two comments follow each other with whitespace between them
commentsApart(ps) ==
  \E i \in 1..Len(ps) - 2 :
    /\ isCommentPiece(ps[i])
    /\ ps[i + 1] # << >> /\ isWhitespace(ps[i + 1])
    /\ isCommentPiece(ps[i + 2])

\* C13 as stated: for every document x with a canonical doctype, no end-tag omission
\* and no self-closing slash on which html.parse succeeds, serializeFragments of the
\* result equals x: BOM, whitespace and comments around doctype and root are kept,
\* also when several comments follow each other separated by whitespace
C13_AsStated == SerializedDocument => output[1] = input

\* C13, amended: the round trip of a document holds when, besides, no two comments
\* that follow each other are separated by whitespace and the root element is
\* written in the form of the serializer
C13_RoundTrip ==
  (/\ SerializedDocument
   /\ ~commentsApart(pieces)
   /\ Range(pieces) \cap OtherRoots = {})
    => output[1] = input

\* a document with a BOM, comments between line feeds before the doctype, two
\* comments in a row before the root and a space after it came back
C13_Witness ==
  /\ SerializedDocument
  /\ pieces = <<<<"BOM">>, <<"\n">>, <<"<", "!", "-", "-", "c", "-", "-", ">">>, <<"\n", "\n">>, DOCTYPE_HTML,
                <<"<", "!", "-", "-", "c", "-", "-", ">">>, <<"<", "!", "-", "-", " ", "d", " ", "-", "-", ">">>,
                <<"<", "h", "t", "m", "l", " ", "l", "a", "n", "g", "=", "\"", "e", "n", "\"", ">", "<", "h", "e", "a", "d", ">", "<", "/", "h", "e", "a", "d", ">", "<", "b", "o", "d", "y", ">", "x", "<", "/", "b", "o", "d", "y", ">", "<", "/", "h", "t", "m", "l", ">">>, <<" ">>>>
  /\ output[1] = input

shadowOpenForm(ps) == CHOOSE f \in ShadowOpenForms : f.written = ps[2]

\* C14: shadowRoot.parse succeeds only if the element after the leading whitespace and
\* comments has the tagName template and the pair (shadowrootmode, open) among its
\* attributes; an element that is no template fails with "Expected a template
\* element", a template without the pair with "Expected a declarative shadow root",
\* both at the position where the parse started
C14_ShadowRoot ==
  (entry = "shadowRoot" /\ pieces \in ShadowDocuments)
    => LET f == shadowOpenForm(pieces)
       IN  /\ result.success => f.name = TEMPLATE /\ f.open
           /\ pieces[4] # << >> =>
                IF f.name # TEMPLATE
                  THEN /\ ~result.success
                       /\ result.message = Msg("Expected a template element")
                       /\ result.position = 1
                ELSE IF ~f.open
                  THEN /\ ~result.success
                       /\ result.message = Msg("Expected a declarative shadow root")
                       /\ result.position = 1
                ELSE /\ Complete(result, input)
                     /\ result.value[Len(result.value)].tagName = TEMPLATE

\* a template without shadowrootmode="open", after a comment, was refused at the
\* position where the parse started
C14_Witness ==
  /\ entry = "shadowRoot"
  /\ pieces = <<<<"<", "!", "-", "-", "c", "-", "-", ">", " ">>, <<"<", "t", "e", "m", "p", "l", "a", "t", "e", " ", "s", "h", "a", "d", "o", "w", "r", "o", "o", "t", "m", "o", "d", "e", "=", "\"", "c", "l", "o", "s", "e", "d", "\"", ">">>, <<"<", "p", ">", "x", "<", "/", "p", ">">>,
                <<"<", "/", "t", "e", "m", "p", "l", "a", "t", "e", ">">>>>
  /\ ~result.success
  /\ result.message = Msg("Expected a declarative shadow root")
  /\ result.position = 1

(***************************************************************************)
(* SpecEndTag: element.parse on elements whose end tag is written, left    *)
(* out, or replaced by something else                                      *)
(***************************************************************************)
\* tokens after the content of a document of ClosingDocuments
MaxTail == 2

BODY == <<"b", "o", "d", "y">>

\* what may follow the content of html and body: end tags, text
TailTokens ==
  { [written |-> <<"<", "/", "b", "o", "d", "y", ">">>, type |-> "end", name |-> BODY],
    [written |-> <<"<", "/", "B", "O", "D", "Y", " ", ">">>, type |-> "end", name |-> BODY],
    [written |-> <<"<", "/", "h", "t", "m", "l", ">">>, type |-> "end", name |-> HTML],
    [written |-> <<"<", "/", "d", "i", "v", ">">>, type |-> "end", name |-> <<"d", "i", "v">>],
    [written |-> <<"x">>, type |-> "text", name |-> << >>] }

\* start tags of html, body or both, a content, and a tail
ClosingDocuments ==
  { roots \o <<content>> \o tail :
      roots \in {<<<<"<", "h", "t", "m", "l", ">">>>>, <<<<"<", "b", "o", "d", "y", ">">>>>, <<<<"<", "h", "t", "m", "l", ">">>, <<"<", "b", "o", "d", "y", ">">>>>},
      content \in {<<"x">>, <<"<", "p", ">", "x", "<", "/", "p", ">">>},
      tail \in Seqs({t.written : t \in TailTokens}, MaxTail) }

\* tag names that are no key of endTagOmission: normal elements, custom elements (one
\* with a "." in its name), a raw text element, a name every object has as a key
RequiredNames ==
  { <<"d", "i", "v">>, <<"m", "y", "-", "e", "l">>, <<"m", "y", "-", ".", "l">>, <<"s", "c", "r", "i", "p", "t">>, <<"c", "o", "n", "s", "t", "r", "u", "c", "t", "o", "r">> }

\* what may stand where the end tag of name is expected; form 1 to 4 are end tags of
\* name, with form 4 followed by text
afterContent(name, form) ==
  CASE form = 0 -> << >>
    [] form = 1 -> endTag(name)
    [] form = 2 -> <<"<", "/">> \o toUpperCase(name) \o <<" ", ">">>
    [] form = 3 -> <<"<", "/">> \o name \o <<"\n", "\t", ">">>
    [] form = 4 -> endTag(name) \o <<"x">>
    [] form = 5 -> <<"<", "/">> \o name \o <<"x", ">">>
    [] form = 6 -> <<"<", "/">> \o name
    [] form = 7 -> <<"<", "/", " ">> \o name \o <<">">>
    [] form = 8 -> <<"<", "/", "b", ">">>
    [] form = 9 -> <<"<", "/", "m", "y", "-", "x", "l", ">">>
    [] form = 10 -> <<"<">> \o name \o <<">">>

EndTagForms == 1..4

\* a start tag of a name of RequiredNames, a content, and what follows it
RequiredDocuments ==
  { <<<<"<">>, name, <<">">>, content, afterContent(name, form)>> :
      name \in RequiredNames,
      content \in {<< >>, <<"x">>, <<"<", "b", ">", "y", "<", "/", "b", ">">>, <<"<", "!", "-", "-", "c", "-", "-", ">">>},
      form \in 0..10 }

EndTagDocuments == ClosingDocuments \cup RequiredDocuments

NextEndTag ==
  \/ ParseElement(EndTagDocuments)
  \/ Discard

SpecEndTag == Init /\ [][NextEndTag]_vars

\* the names of the start tags a document of ClosingDocuments starts with
rootNames(ps) ==
  IF ps[1] = <<"<", "b", "o", "d", "y", ">">> THEN <<BODY>>
  ELSE IF ps[2] = <<"<", "b", "o", "d", "y", ">">> THEN <<HTML, BODY>>
  ELSE <<HTML>>

tailToken(piece) == CHOOSE t \in TailTokens : t.written = piece

RECURSIVE closedAt(_, _, _)

\* the position after the root element, or 0 when an element cannot be closed: open
\* is the stack of open html and body elements, tail what remains from position pos;
\* an element is closed by its own end tag, which is consumed, and without it only
\* at the end of input, or, for body, before an end tag of html
closedAt(open, tail, pos) ==
  LET top == open[Len(open)]
      pop == SubSeq(open, 1, Len(open) - 1)
  IN  IF open = << >> \/ tail = << >> THEN pos
      ELSE LET t == tailToken(tail[1])
           IN  IF t.type = "text" THEN closedAt(open, Tail(tail), pos + Len(t.written))
               ELSE IF t.name = top THEN closedAt(pop, Tail(tail), pos + Len(t.written))
               ELSE IF top = BODY /\ t.name = HTML THEN closedAt(pop, tail, pos)
               ELSE 0

\* closedAt for a document of ClosingDocuments
closing(ps) ==
  closedAt(rootNames(ps),
           SubSeq(ps, Len(rootNames(ps)) + 2, Len(ps)),
           Len(Flatten(SubSeq(ps, 1, Len(rootNames(ps)) + 1))) + 1)

\* C15: an html or body element is closed without its end tag only when no input
\* remains, or, for body, when an end tag of html follows; when other input remains
\* (a stray </div>, an end tag of body after html) the element is not closed and the
\* parse fails; an explicit end tag of html or body is accepted and consumed
C15_ClosedAtEnd ==
  (entry = "element" /\ pieces \in ClosingDocuments)
    => IF closing(pieces) = 0 THEN ~result.success
       ELSE result.success /\ result.position = closing(pieces)

\* <html><body>x</html>: body was closed before the end tag of html, which was consumed
C15_Witness ==
  /\ entry = "element"
  /\ pieces = <<<<"<", "h", "t", "m", "l", ">">>, <<"<", "b", "o", "d", "y", ">">>, <<"x">>, <<"<", "/", "h", "t", "m", "l", ">">>>>
  /\ Complete(result, input)
  /\ result.value.children[1].tagName = BODY

\* the parts of a document of RequiredDocuments
requiredName(ps) == ps[2]

hasEndTag(ps) ==
  \E form \in EndTagForms : ps[5] = afterContent(requiredName(ps), form)

\* the position after the end tag of a document with hasEndTag
afterEndTag(ps) ==
  Len(Flatten(ps)) + 1 - (IF ps[5] = afterContent(requiredName(ps), 4) THEN 1 ELSE 0)

\* C16 as stated: for every element that is not self-closing and whose tag name is no
\* key of the end-tag-omission table, when the input after the children does not start
\* with "</", the tag name in any letter case, optional whitespace and ">", the element
\* parser fails with the message "Expected a '</tagName>' end tag" for that tag name;
\* when it does, the parse succeeds and the end tag is consumed
C16_AsStated ==
  (entry = "element" /\ pieces \in RequiredDocuments)
    => IF hasEndTag(pieces)
         THEN result.success /\ result.position = afterEndTag(pieces)
         ELSE /\ ~result.success
              /\ result.message
                   = TagMsg("Expected a '</tagName>' end tag", requiredName(pieces))

(***************************************************************************)
(* SpecFailure: the four parsers on inputs in which one node cannot be     *)
(* parsed                                                                  *)
(***************************************************************************)
\* nodes before the node that cannot be parsed
MaxBefore == 2

\* nodes that parse
GoodNodes == { <<"x">>, <<"<", "b", ">", "y", "<", "/", "b", ">">>, <<"<", "!", "-", "-", "c", "-", "-", ">">>, <<"<", "b", "r", ">">> }

\* an element without its end tag, a self-closing slash on a normal element, an end
\* tag of another name
FailingNodes == { <<"<", "d", "i", "v", ">">>, <<"<", "d", "i", "v", "/", ">">>, <<"<", "i", ">", "x", "<", "/", "b", ">">> }

\* nodes, one that cannot be parsed, and nothing or text after it, between open and
\* close
FailingDocuments(open, close) ==
  { open \o before \o <<failing>> \o after \o close :
      before \in Seqs(GoodNodes, MaxBefore),
      failing \in FailingNodes,
      after \in {<< >>, <<<<"z">>>>} }

FailingFragments == FailingDocuments(<< >>, << >>)

FailingElements == FailingDocuments(<<<<"<", "s", "e", "c", "t", "i", "o", "n", ">">>>>, <<<<"<", "/", "s", "e", "c", "t", "i", "o", "n", ">">>>>)

FailingHtml ==
  FailingDocuments(<<<<"<", "!", "D", "O", "C", "T", "Y", "P", "E", " ", "h", "t", "m", "l", ">">>, <<"<", "h", "t", "m", "l", ">">>>>, <<<<"<", "/", "h", "t", "m", "l", ">">>>>)
    \cup FailingDocuments(<<<<"<", "!", "D", "O", "C", "T", "Y", "P", "E", " ", "h", "t", "m", "l", ">">>, <<"<", "h", "t", "m", "l", ">">>, <<"<", "/", "h", "t", "m", "l", ">">>>>, << >>)

FailingShadowRoots ==
  FailingDocuments(<<<<"<", "t", "e", "m", "p", "l", "a", "t", "e", " ", "s", "h", "a", "d", "o", "w", "r", "o", "o", "t", "m", "o", "d", "e", "=", "\"", "o", "p", "e", "n", "\"", ">">>>>, <<<<"<", "/", "t", "e", "m", "p", "l", "a", "t", "e", ">">>>>)

NextFailure ==
  \/ ParseFragments(FailingFragments)
  \/ ParseElement(FailingElements)
  \/ ParseHtml(FailingHtml)
  \/ ParseShadowRoot(FailingShadowRoots)
  \/ Discard

SpecFailure == Init /\ [][NextFailure]_vars

\* the input of the parser that was invoked holds a node that cannot be parsed
hasFailingNode ==
  \/ entry = "fragments" /\ pieces \in FailingFragments
  \/ entry = "element" /\ pieces \in FailingElements
  \/ entry = "html" /\ pieces \in FailingHtml
  \/ entry = "shadowRoot" /\ pieces \in FailingShadowRoots

\* C17 as stated: no partial trees are returned; when a node inside the input fails to
\* parse (an element with a missing end tag, a self-closing slash on a non-void
\* element), the fragments, element, html and shadowRoot parsers return a failure and
\* never a success whose value holds only the nodes parsed before the failing part
C17_AsStated == hasFailingNode => ~result.success

(***************************************************************************)
(* SpecSerialize: serializeNode and serializeFragments on nodes that the   *)
(* caller builds                                                           *)
(***************************************************************************)
\* attributes of a node of AttributeNodes
MaxPairs == 2

\* an attribute [k, v] of a node and the text that stands for it in a start tag
GivenAttributes ==
  { [pair |-> <<<<"a">>, <<"b", " ", "c">>>>, written |-> <<"a", "=", "\"", "b", " ", "c", "\"">>],
    [pair |-> <<<<"a">>, << >> >>, written |-> <<"a", "=", "\"", "\"">>],
    [pair |-> <<<<"a">>, <<"s", "a", "y", " ", "\"", "h", "i", "\"">>>>, written |-> <<"a", "=", "'", "s", "a", "y", " ", "\"", "h", "i", "\"", "'">>],
    [pair |-> <<<<"a">>, <<"i", "t", "'", "s">>>>, written |-> <<"a", "=", "\"", "i", "t", "'", "s", "\"">>],
    [pair |-> <<<<"B">>, <<"'", "\"">>>>, written |-> <<"B", "=", "'", "'", "\"", "'">>],
    [pair |-> <<<<"a">>, <<"<", "&", ">">>>>, written |-> <<"a", "=", "\"", "<", "&", ">", "\"">>],
    [pair |-> <<<<"c", "h", "e", "c", "k", "e", "d">>, << >> >>, written |-> <<"c", "h", "e", "c", "k", "e", "d">>],
    [pair |-> <<<<"h", "i", "d", "d", "e", "n">>, <<"u", "n", "t", "i", "l", " ", "\"", "f", "o", "u", "n", "d", "\"">>>>, written |-> <<"h", "i", "d", "d", "e", "n">>],
    [pair |-> <<<<"C", "H", "E", "C", "K", "E", "D">>, << >> >>, written |-> <<"C", "H", "E", "C", "K", "E", "D", "=", "\"", "\"">>] }

\* elements with up to MaxPairs attributes: a div without children, an input
AttributeNodes ==
  { [kind |-> "NORMAL", tagName |-> <<"d", "i", "v">>, attributes |-> attrs, children |-> << >>] :
      attrs \in Seqs({f.pair : f \in GivenAttributes}, MaxPairs) }
    \cup
  { [kind |-> "VOID", tagName |-> <<"i", "n", "p", "u", "t">>, attributes |-> attrs, selfClosing |-> TRUE] :
      attrs \in Seqs({f.pair : f \in GivenAttributes}, MaxPairs) }

\* nodes in a list of CommentFragments and in the children of an element
MaxWidth == 2

\* a text and two comments, each with the text that stands for it, the text that
\* stands for it without comments, and the nodes left when comments are deleted
CommentLeaves ==
  { [node |-> textNode(<<"x">>), written |-> <<"x">>, stripped |-> <<"x">>,
     deleted |-> <<textNode(<<"x">>)>>],
    [node |-> commentNode(<<"c">>), written |-> <<"<", "!", "-", "-", "c", "-", "-", ">">>, stripped |-> << >>,
     deleted |-> << >>],
    [node |-> commentNode(<<" ", "d", "-", " ">>), written |-> <<"<", "!", "-", "-", " ", "d", "-", " ", "-", "-", ">">>, stripped |-> << >>,
     deleted |-> << >>] }

\* a list of nodes, from the list of their descriptions
forest(items) ==
  [nodes |-> [i \in 1..Len(items) |-> items[i].node],
   written |-> Flatten([i \in 1..Len(items) |-> items[i].written]),
   stripped |-> Flatten([i \in 1..Len(items) |-> items[i].stripped]),
   deleted |-> Flatten([i \in 1..Len(items) |-> items[i].deleted])]

Forests(Items) == {forest(items) : items \in Seqs(Items, MaxWidth)}

\* the element p around a list of nodes
around(f) ==
  [node |-> [kind |-> "NORMAL", tagName |-> <<"p">>, attributes |-> << >>,
             children |-> f.nodes],
   written |-> <<"<", "p", ">">> \o f.written \o <<"<", "/", "p", ">">>,
   stripped |-> <<"<", "p", ">">> \o f.stripped \o <<"<", "/", "p", ">">>,
   deleted |-> <<[kind |-> "NORMAL", tagName |-> <<"p">>, attributes |-> << >>,
                  children |-> f.deleted]>>]

CommentItems == CommentLeaves \cup {around(f) : f \in Forests(CommentLeaves)}

\* lists of nodes with comments at depth 0 and 1
CommentFragments == Forests(CommentItems)

\* nodes with comments at depth 0, 1 and 2
CommentTrees == CommentLeaves \cup {around(f) : f \in CommentFragments}

\* a void element with selfClosing true, false or absent (absent is form 0), with and
\* without an empty list of children
voidNode(name, attrs, form, children) ==
  [kind |-> "VOID", tagName |-> name, attributes |-> attrs]
    @@ (IF form = 0 THEN << >> ELSE [selfClosing |-> form = 1])
    @@ (IF children THEN [children |-> << >>] ELSE << >>)

VoidNodes ==
  { voidNode(name, attrs, form, children) :
      name \in Range(voidElements),
      attrs \in {<< >>, << <<<<"a">>, <<"b", " ", "c">>>> >>},
      form \in 0..2,
      children \in BOOLEAN }

GivenNodes == AttributeNodes \cup {t.node : t \in CommentTrees} \cup VoidNodes

GivenFragments == {f.nodes : f \in CommentFragments}

\* the caller holds a node it has built; no parser was invoked
given(value) == [success |-> TRUE, value |-> value, position |-> 1]

InitSerialize ==
  /\ foreignStack = << >>
  /\ pieces = << >>
  /\ \/ entry = "node" /\ result \in {given(node) : node \in GivenNodes}
     \/ entry = "fragment" /\ result \in {given(fragment) : fragment \in GivenFragments}
  /\ output = << >>
  /\ options = [removeComments |-> FALSE]
  /\ first = << >>
  /\ calls = 0
  /\ frames = << >>
  /\ started = << >>

\* serializeNode(node, { removeComments: rc })
SerializeGivenNode(rc) ==
  /\ entry = "node"
  /\ output = << >>
  /\ output' = <<serializeNode(result.value, rc)>>
  /\ options' = [removeComments |-> rc]
  /\ UNCHANGED <<foreignStack, pieces, entry, result, first, calls, stepVars>>

\* serializeFragments(fragment, { removeComments: rc })
SerializeGivenFragments(rc) ==
  /\ entry = "fragment"
  /\ output = << >>
  /\ output' = <<serializeFragments(result.value, rc)>>
  /\ options' = [removeComments |-> rc]
  /\ UNCHANGED <<foreignStack, pieces, entry, result, first, calls, stepVars>>

NextSerialize ==
  \/ \E rc \in BOOLEAN : SerializeGivenNode(rc)
  \/ \E rc \in BOOLEAN : SerializeGivenFragments(rc)

SpecSerialize == InitSerialize /\ [][NextSerialize]_vars

writtenAttribute(pair) == (CHOOSE f \in GivenAttributes : f.pair = pair).written

\* the start tag of a node of AttributeNodes: the name, and a space and the text of
\* the attribute for every attribute in the order of the list
expectedStartTag(node) ==
  <<"<">> \o node.tagName
    \o Flatten([i \in 1..Len(node.attributes) |->
                  <<" ">> \o writtenAttribute(node.attributes[i])])
    \o <<">">>

\* C18: serializeNode writes the attributes of an element in the order of the list,
\* one space before each: the bare name when the name is in booleanAttributes,
\* otherwise name="value", with single quotes in place of the double quotes exactly
\* when the value holds a double quote, and the value as it is, nothing escaped
C18_Attributes ==
  (entry = "node" /\ output # << >> /\ result.value \in AttributeNodes)
    => output[1] = expectedStartTag(result.value)
                     \o (IF isSelfClosing(result.value) THEN << >>
                         ELSE endTag(result.value.tagName))

\* <div a='say "hi"' checked></div> was written
C18_Witness ==
  /\ entry = "node"
  /\ result.value \in AttributeNodes
  /\ result.value.attributes = << <<<<"a">>, <<"s", "a", "y", " ", "\"", "h", "i", "\"">>>>, <<<<"c", "h", "e", "c", "k", "e", "d">>, << >> >> >>
  /\ output = <<<<"<", "d", "i", "v", " ", "a", "=", "'", "s", "a", "y", " ", "\"", "h", "i", "\"", "'", " ", "c", "h", "e", "c", "k", "e", "d", ">", "<", "/", "d", "i", "v", ">">>>>

\* the description of the node or the list of nodes that the caller holds
described ==
  IF entry = "node" THEN CHOOSE t \in CommentTrees : t.node = result.value
  ELSE LET f == CHOOSE g \in CommentFragments : g.nodes = result.value
       IN  [written |-> f.written, stripped |-> f.stripped, deleted |-> f.deleted]

holdsCommentTree ==
  \/ entry = "node" /\ \E t \in CommentTrees : t.node = result.value
  \/ entry = "fragment" /\ \E f \in CommentFragments : f.nodes = result.value

\* C19: with removeComments true, serializeNode and serializeFragments write nothing
\* for a Comment node at any depth, so that the output is the serialization of the
\* tree with its Comment nodes deleted; with removeComments false (or absent: the
\* default is false) every Comment node is written as <!--text-->
C19_RemoveComments ==
  (holdsCommentTree /\ output # << >>)
    => IF options.removeComments
         THEN /\ output[1] = described.stripped
              /\ output[1] = serializeFragments(described.deleted, FALSE)
         ELSE output[1] = described.written

\* <p>x<p><!--c-->x</p></p> was written as <p>x<p>x</p></p>
C19_Witness ==
  /\ entry = "node"
  /\ options.removeComments
  /\ result.value = around(forest(<<CHOOSE t \in CommentLeaves : t.written = <<"x">>,
                                    around(forest(<<CHOOSE t \in CommentLeaves : t.written = <<"<", "!", "-", "-", "c", "-", "-", ">">>,
                                                    CHOOSE t \in CommentLeaves : t.written = <<"x">>>>))>>)).node
  /\ output = <<<<"<", "p", ">", "x", "<", "p", ">", "x", "<", "/", "p", ">", "<", "/", "p", ">">>>>

\* C20 as stated: for every element node with kind VOID, whether selfClosing is true,
\* false or absent, serializeNode writes the start tag alone, without children and
\* without an end tag
C20_AsStated ==
  (entry = "node" /\ output # << >> /\ result.value \in VoidNodes)
    => output[1] = expectedStartTag(result.value)

(***************************************************************************)
(* SpecNames: customElementName.parse                                      *)
(***************************************************************************)
\* a name as written and what is expected of it: "forbidden", "no dash", "name", or
\* "no name" when it does not start with a letter
NameForms ==
  { [written |-> <<"a", "n", "n", "o", "t", "a", "t", "i", "o", "n", "-", "x", "m", "l">>, is |-> "forbidden"],
    [written |-> <<"c", "o", "l", "o", "r", "-", "p", "r", "o", "f", "i", "l", "e">>, is |-> "forbidden"],
    [written |-> <<"f", "o", "n", "t", "-", "f", "a", "c", "e">>, is |-> "forbidden"],
    [written |-> <<"f", "o", "n", "t", "-", "f", "a", "c", "e", "-", "s", "r", "c">>, is |-> "forbidden"],
    [written |-> <<"f", "o", "n", "t", "-", "f", "a", "c", "e", "-", "u", "r", "i">>, is |-> "forbidden"],
    [written |-> <<"f", "o", "n", "t", "-", "f", "a", "c", "e", "-", "f", "o", "r", "m", "a", "t">>, is |-> "forbidden"],
    [written |-> <<"f", "o", "n", "t", "-", "f", "a", "c", "e", "-", "n", "a", "m", "e">>, is |-> "forbidden"],
    [written |-> <<"m", "i", "s", "s", "i", "n", "g", "-", "g", "l", "y", "p", "h">>, is |-> "forbidden"],
    [written |-> <<"F", "o", "n", "t", "-", "F", "a", "c", "e">>, is |-> "forbidden"],
    [written |-> <<"f", "o", "n", "t", "-", "f", "a", "c", "e", "-", "x">>, is |-> "name"],
    [written |-> <<"f", "o", "n", "t", "-", "f", "a", "c">>, is |-> "name"],
    [written |-> <<"x", "f", "o", "n", "t", "-", "f", "a", "c", "e">>, is |-> "name"],
    [written |-> <<"m", "i", "s", "s", "i", "n", "g", "_", "g", "l", "y", "p", "h">>, is |-> "no dash"],
    [written |-> <<"a", "b", "c">>, is |-> "no dash"],
    [written |-> <<"a">>, is |-> "no dash"],
    [written |-> <<"D", "I", "V">>, is |-> "no dash"],
    [written |-> <<"h", "1">>, is |-> "no dash"],
    [written |-> <<"a", ".", "b", "_", "c">>, is |-> "no dash"],
    [written |-> <<"m", "y", "-", "e", "l">>, is |-> "name"],
    [written |-> <<"M", "y", "-", "E", "l">>, is |-> "name"],
    [written |-> <<"a", "-">>, is |-> "name"],
    [written |-> <<"x", "-", "1", ".", "y", "_", "Z">>, is |-> "name"],
    [written |-> <<"a", "-", "-", "b">>, is |-> "name"],
    [written |-> <<"-", "a", "b">>, is |-> "no name"],
    [written |-> <<"1", "a", "-", "b">>, is |-> "no name"],
    [written |-> <<"_", "a", "-", "b">>, is |-> "no name"],
    [written |-> << >>, is |-> "no name"] }

\* a name and what follows it, which is no character of a name
NameDocuments ==
  { <<f.written, after>> :
      f \in NameForms,
      after \in {<< >>, <<">">>, <<" ", "a", "-", "b">>, <<"/", ">">>, <<"=", "x", "-", "y">>} }

\* customElementName.parse(x)
ParseCustomElementName(D) == Idle /\ \E ps \in D : InvokeLexer("customElementName", ps)

NextNames ==
  \/ ParseCustomElementName(NameDocuments)
  \/ Discard

SpecNames == Init /\ [][NextNames]_vars

nameForm(ps) == CHOOSE f \in NameForms : f.written = ps[1]

\* C21: customElementName fails with "Forbidden custom element name" on each of the
\* eight forbidden names (in any letter case: the name is compared in lower case),
\* fails with "Invalid custom element name (should include a dash)" on every name
\* that starts with a letter and holds no "-", and otherwise, when a name stands
\* there, succeeds with the name in lower case and the position after it
C21_CustomElementName ==
  (entry = "customElementName" /\ pieces \in NameDocuments)
    => CASE nameForm(pieces).is = "forbidden" ->
              ~result.success /\ result.message = Msg("Forbidden custom element name")
         [] nameForm(pieces).is = "no dash" ->
              /\ ~result.success
              /\ result.message
                   = Msg("Invalid custom element name (should include a dash)")
         [] nameForm(pieces).is = "name" ->
              /\ result.success
              /\ result.value = toLowerCase(pieces[1])
              /\ result.position = Len(pieces[1]) + 1
         [] nameForm(pieces).is = "no name" -> ~result.success

\* font-face-src> was refused as a forbidden name
C21_Witness ==
  /\ entry = "customElementName"
  /\ pieces = <<<<"f", "o", "n", "t", "-", "f", "a", "c", "e", "-", "s", "r", "c">>, <<">">>>>
  /\ ~result.success
  /\ result.message = Msg("Forbidden custom element name")

(***************************************************************************)
(* SpecText: the four parsers on inputs with text, "<" and ">" in normal   *)
(* elements, in raw text elements and at the top level                     *)
(***************************************************************************)
\* pieces of the content of a document of TextDocuments
MaxText == 3

TextPieces ==
  { <<"a">>, <<"<">>, <<">">>, <<" ">>, <<"\n">>, <<"<", "b", ">", "c", "<", "/", "b", ">">>, <<"<", "!", "-", "-", "c", "-", "-", ">">> }

\* a content between open and close
TextDocuments(open, close) ==
  { open \o content \o close : content \in Seqs(TextPieces, MaxText) }

TextFragments == TextDocuments(<< >>, << >>)

TextElements ==
  TextDocuments(<<<<"<", "d", "i", "v", ">">>>>, <<<<"<", "/", "d", "i", "v", ">">>>>)
    \cup TextDocuments(<<<<"<", "s", "c", "r", "i", "p", "t", ">">>>>, <<<<"<", "/", "s", "c", "r", "i", "p", "t", ">">>>>)
    \cup TextDocuments(<<<<"<", "t", "e", "x", "t", "a", "r", "e", "a", ">">>>>, <<<<"<", "/", "t", "e", "x", "t", "a", "r", "e", "a", ">">>>>)

TextHtml ==
  TextDocuments(<<<<"<", "!", "D", "O", "C", "T", "Y", "P", "E", " ", "h", "t", "m", "l", ">">>, <<"<", "h", "t", "m", "l", ">">>>>, <<<<"<", "/", "h", "t", "m", "l", ">">>>>)
    \cup TextDocuments(<< >>, <<<<"<", "!", "D", "O", "C", "T", "Y", "P", "E", " ", "h", "t", "m", "l", ">">>, <<"<", "h", "t", "m", "l", ">">>, <<"<", "/", "h", "t", "m", "l", ">">>>>)
    \cup TextDocuments(<<<<"<", "!", "D", "O", "C", "T", "Y", "P", "E", " ", "h", "t", "m", "l", ">">>, <<"<", "h", "t", "m", "l", ">">>, <<"<", "/", "h", "t", "m", "l", ">">>>>, << >>)

TextShadowRoots ==
  TextDocuments(<<<<"<", "t", "e", "m", "p", "l", "a", "t", "e", " ", "s", "h", "a", "d", "o", "w", "r", "o", "o", "t", "m", "o", "d", "e", "=", "\"", "o", "p", "e", "n", "\"", ">">>>>, <<<<"<", "/", "t", "e", "m", "p", "l", "a", "t", "e", ">">>>>)
    \cup TextDocuments(<< >>, <<<<"<", "t", "e", "m", "p", "l", "a", "t", "e", " ", "s", "h", "a", "d", "o", "w", "r", "o", "o", "t", "m", "o", "d", "e", "=", "\"", "o", "p", "e", "n", "\"", ">">>, <<"<", "/", "t", "e", "m", "p", "l", "a", "t", "e", ">">>>>)

NextText ==
  \/ ParseFragments(TextFragments)
  \/ ParseElement(TextElements)
  \/ ParseHtml(TextHtml)
  \/ ParseShadowRoot(TextShadowRoots)
  \/ Discard

SpecText == Init /\ [][NextText]_vars

RECURSIVE textNodes(_, _)
\* the Text nodes of a forest, each with the kind of its parent ("none" at the top)
textNodes(nodes, parent) ==
  IF nodes = << >> THEN << >>
  ELSE LET n == nodes[1]
       IN  (IF n.kind = "TEXT" THEN <<[text |-> n.text, parent |-> parent]>>
            ELSE IF IsElement(n) THEN textNodes(childrenOf(n), n.kind)
            ELSE << >>)
             \o textNodes(Tail(nodes), parent)

\* the Text nodes of the tree that a parser returned
parsedTexts ==
  IF result.success /\ entry \in {"element", "fragments", "html", "shadowRoot"}
    THEN textNodes(Tree(result), "none")
    ELSE << >>

\* C22 as stated: in every tree returned by a successful parse no Text node has a text
\* that contains "<", the Text child of raw text and escapable raw text elements
\* included
C22_AsStated ==
  \A i \in 1..Len(parsedTexts) : ~Includes(parsedTexts[i].text, "<")

\* the Text node that html makes of the doctype
isDoctypeText(t) == entry = "html" /\ t.parent = "none" /\ t.text = DOCTYPE_HTML

\* C22, amended: no Text node read by the text parser holds "<": the Text children of
\* the elements that are no raw text and no escapable raw text element, and the Text
\* nodes at the top level other than the doctype
C22_TextWithoutLessThan ==
  \A i \in 1..Len(parsedTexts) :
    (/\ parsedTexts[i].parent \notin {"RAW_TEXT", "ESCAPABLE_RAW_TEXT"}
     /\ ~isDoctypeText(parsedTexts[i]))
      => ~Includes(parsedTexts[i].text, "<")

\* <div>a><b>c</b></div> came back with the Text a> before the element b
C22_Witness ==
  /\ entry = "element"
  /\ pieces = <<<<"<", "d", "i", "v", ">">>, <<"a">>, <<">">>, <<"<", "b", ">", "c", "<", "/", "b", ">">>, <<"<", "/", "d", "i", "v", ">">>>>
  /\ Complete(result, input)
  /\ parsedTexts[1] = [text |-> <<"a", ">">>, parent |-> "NORMAL"]

(***************************************************************************)
(* The objects of a tree: a node is an object made where it stands, named  *)
(* here by its path, the indices that lead to it from the list returned    *)
(***************************************************************************)
RECURSIVE heapParentOfElement(_, _, _)
\* heap with the parent of the element given to its children
heapParentOfElement(nodes, path, parent) ==
  UNION { {[id |-> path \o <<i>>, node |-> nodes[i], parent |-> parent]}
            \cup heapParentOfElement(childrenOf(nodes[i]), path \o <<i>>, parent) :
          i \in 1..Len(nodes) }

RECURSIVE heap(_, _, _)
\* the objects of the nodes of a list and below, with the parent of each (an empty
\* sequence, or the path of the parent): element sets child.parent = elementNode for
\* each child it pushes on its children; a node of the list that a parser returns was
\* pushed on no list and has no parent
heap(nodes, path, parent) ==
  UNION { {[id |-> path \o <<i>>, node |-> nodes[i], parent |-> parent]}
            \cup heap(childrenOf(nodes[i]), path \o <<i>>, <<path \o <<i>>>>) :
          i \in 1..Len(nodes) }

\* the objects of the tree that a parser returned
parsedObjects ==
  IF result.success /\ entry \in {"element", "fragments", "html", "shadowRoot"}
    THEN heap(Tree(result), << >>, << >>)
    ELSE {}

RECURSIVE nodeCount(_)
\* the number of places in the lists of a forest
nodeCount(nodes) ==
  IF nodes = << >> THEN 0
  ELSE 1 + nodeCount(childrenOf(nodes[1])) + nodeCount(Tail(nodes))

C23_AsStated == [][foreignStack = << >> => foreignStack' = << >>]_vars

\* what the parser that was invoked returns for the same input in a fresh process
asFirstInvocation == returned(parse(Parser(entry), input, 1, << >>))

\* C24 as stated: no invocation interferes with a later one: whatever was parsed
\* before in the same process, with success or failure, the result of parsing x is the
\* result of parsing x as the very first invocation (same success or failure, same
\* tree, kinds and casing of tag names, same message)
C24_AsStated ==
  entry \in {"element", "fragments", "html", "shadowRoot"} => result = asFirstInvocation

\* the kind of an element by the first rule that matches its tag name
kindByRule(name, inForeign) ==
  IF name = TEMPLATE THEN "TEMPLATE"
  ELSE IF Includes(voidElements, name) THEN "VOID"
  ELSE IF Includes(rawTextElements, name) THEN "RAW_TEXT"
  ELSE IF Includes(escapableRawTextElements, name) THEN "ESCAPABLE_RAW_TEXT"
  ELSE IF name = SVG \/ name = MATH THEN "FOREIGN"
  ELSE IF inForeign THEN "FOREIGN"
  ELSE "NORMAL"

\* C26 as stated: the kind of every parsed element is decided by the first matching
\* rule: template, void element names, script and style, textarea and title, svg and
\* math, and for any other name FOREIGN with an svg or math ancestor and NORMAL
\* without; an element without such an ancestor that is not svg or math itself is
\* never FOREIGN
C26_AsStated ==
  (entry \in {"element", "fragments", "html", "shadowRoot"} /\ result.success)
    => \A i \in 1..Len(elementsOf(Tree(result), FALSE)) :
         LET e == elementsOf(Tree(result), FALSE)[i]
         IN  e.node.kind = kindByRule(e.node.tagName, e.inForeign)

(***************************************************************************)
(* Claims on SpecElement: start tags that close an element                 *)
(***************************************************************************)
LI == <<"l", "i">>

LINK == <<"l", "i", "n", "k">>

RECURSIVE linksInLi(_, _)
\* the number of link elements of a forest whose parent is an li element
linksInLi(nodes, inLi) ==
  IF nodes = << >> THEN 0
  ELSE LET n == nodes[1]
       IN  (IF ~IsElement(n) THEN 0
            ELSE (IF n.tagName = LINK /\ inLi THEN 1 ELSE 0)
                   + linksInLi(childrenOf(n), n.tagName = LI))
             + linksInLi(Tail(nodes), inLi)

RECURSIVE linksWhileLiOpen(_, _)
\* the number of <link> tokens of a list that stand where an li element is open: an
\* li element is open from <li> to the next </li>, <li> or </ul>
linksWhileLiOpen(ps, open) ==
  IF ps = << >> THEN 0
  ELSE LET t == omissionToken(ps[1])
       IN  IF t.name = LINK
             THEN (IF open THEN 1 ELSE 0) + linksWhileLiOpen(Tail(ps), open)
           ELSE IF t.type = "text" THEN linksWhileLiOpen(Tail(ps), open)
           ELSE linksWhileLiOpen(Tail(ps), t.type = "start" /\ t.name = LI)

\* C25 as stated: among the children of an element with an entry in the
\* end-tag-omission table, a start tag closes the element only when its tag name is
\* equal to a member of the open set; a start tag of another name, also one that
\* begins with a member of the open set, as <link> in <li>, is parsed as a child:
\* every <link> written where an li element is open is a child of an li element
C25_AsStated ==
  (entry = "element" /\ pieces \in OmissionDocuments /\ Complete(result, input))
    => linksInLi(<<result.value>>, FALSE) = linksWhileLiOpen(pieces, FALSE)

(***************************************************************************)
(* Guards                                                                  *)
(***************************************************************************)
ElementKind == <<"VOID", "TEMPLATE", "RAW_TEXT", "ESCAPABLE_RAW_TEXT", "FOREIGN", "NORMAL">>

NodeKind == <<"COMMENT", "TEXT", "CDATA">> \o ElementKind

\* values a guard may be given: null, a number, an object with its fields
null == [type |-> "null"]

number == [type |-> "number"]

object(fields) == [type |-> "object", fields |-> fields]

\* src/parser.ts:939 isMNode
isMNode(node) ==
  IF node.type = "null" THEN FALSE
  ELSE IF node.type # "object" THEN FALSE
  ELSE IF "kind" \in DOMAIN node.fields /\ Includes(NodeKind, node.fields.kind)
    THEN IF node.fields.kind = "COMMENT" \/ node.fields.kind = "TEXT"
           THEN "text" \in DOMAIN node.fields
           ELSE "tagName" \in DOMAIN node.fields /\ "attributes" \in DOMAIN node.fields
  ELSE FALSE

isCommentNode(node) == isMNode(node) /\ node.fields.kind = "COMMENT"

isTextNode(node) == isMNode(node) /\ node.fields.kind = "TEXT"

isElementNode(node) == isMNode(node) /\ Includes(ElementKind, node.fields.kind)

RECURSIVE nodesOf(_)
\* the nodes of a forest, at every depth
nodesOf(nodes) ==
  IF nodes = << >> THEN << >>
  ELSE <<nodes[1]>> \o nodesOf(childrenOf(nodes[1])) \o nodesOf(Tail(nodes))

\* the number of guards of a variant that recognise a node
recognised(node) ==
  Cardinality({g \in {"comment", "text", "element"} :
                 \/ g = "comment" /\ isCommentNode(node)
                 \/ g = "text" /\ isTextNode(node)
                 \/ g = "element" /\ isElementNode(node)})

\* C28 as stated: isMNode is true for every node the parsers produce, Text, Comment,
\* Cdata and Element alike, and exactly one variant is recognised for each; it is
\* false for null, for what is no object and for objects without a known kind
C28_AsStated ==
  /\ (entry \in {"element", "fragments", "html", "shadowRoot"} /\ result.success)
       => \A i \in 1..Len(nodesOf(Tree(result))) :
            /\ isMNode(object(nodesOf(Tree(result))[i]))
            /\ recognised(object(nodesOf(Tree(result))[i])) = 1
  /\ ~isMNode(null)
  /\ ~isMNode(number)
  /\ ~isMNode(object(<< >>))
  /\ ~isMNode(object([kind |-> "DOCUMENT", text |-> << >>]))

(***************************************************************************)
(* Empty Text nodes                                                        *)
(***************************************************************************)
\* C30 as stated: every Text node in the tree of a successful parseFragments,
\* parseElement, parseHtml or parseShadowRoot has a non-empty text
C30_AsStated ==
  \A i \in 1..Len(parsedTexts) : parsedTexts[i].text # << >>
(***************************************************************************)
(* An invocation step by step: element and fragments as the activations    *)
(* the many(alt(...)) loops and the recursive calls of element make, each  *)
(* step one parser applied where the activation on top stands.             *)
(***************************************************************************)
\* pieces of a document written from StepTokens
MaxParts == 3

StepTokens ==
  { <<"<", "u", "l", ">", "<", "l", "i", ">">>, <<"<", "l", "i", ">", "a">>, <<"<", "/", "u", "l", ">">>,
    <<"<", "p", ">">>, <<"<", "/", "d", "i", "v", ">">>,
    <<"<", "s", "v", "g", ">", "<", "!", "[", "C", "D", "A", "T", "A", "[", "x", "]", "]", ">">>, <<"<", "/", "s", "v", "g", ">">>,
    <<"<", "!", "-", "-", "c", "-", "-", ">">>, <<"<", "b", "r", ">">>, <<"<", "s", "c", "r", "i", "p", "t", ">", "a", "<", "b", "<", "/", "s", "c", "r", "i", "p", "t", ">">> }

StepDocuments == Seqs(StepTokens, MaxParts)

\* the activation of parser name called at pos: element starts at its start tag
\* (src/parser.ts:445), fragments in its loop (src/parser.ts:592)
Activation(name, pos) ==
  [parser |-> name, start |-> pos, position |-> pos,
   at |-> IF name = "element" THEN "startTag" ELSE "children",
   openTag |-> << >>, children |-> << >>, avoidOpenTags |-> << >>, cdata |-> FALSE]

top == frames[Len(frames)]

\* the activation on top goes on as f
Continue(f) == frames' = [frames EXCEPT ![Len(frames)] = f]

\* element.parse(x) or fragments.parse(x) is called: nothing of x is read yet
Call(D) ==
  /\ Idle
  /\ frames = << >>
  /\ \E ps \in D, name \in {"element", "fragments"} :
       /\ pieces' = ps
       /\ entry' = name
       /\ frames' = <<Activation(name, 1)>>
  /\ started' = << >>
  /\ result' = NoResult
  /\ output' = << >>
  /\ first' = << >>
  /\ UNCHANGED <<foreignStack, options, calls>>

\* the activation on top returns r. To the loop of its caller: a success is one more
\* child and the loop goes on after it, a failure leaves the loop where it stood, with
\* the alternatives after element to try. Or to the caller of the invocation.
ReturnFrom(r) ==
  IF Len(frames) = 1
    THEN /\ frames' = << >>
         /\ Return(r)
         /\ UNCHANGED <<pieces, entry, output, options, first>>
    ELSE LET caller == frames[Len(frames) - 1]
         IN  /\ frames' =
                  Append(SubSeq(frames, 1, Len(frames) - 2),
                         IF r.success
                           THEN [caller EXCEPT !.position = r.position,
                                               !.children = Append(@, r.value)]
                           ELSE [caller EXCEPT !.at = "alt"])
             /\ foreignStack' = r.fs
             /\ UNCHANGED <<pieces, entry, result, output, options, first, calls>>

\* src/parser.ts:448-493: after startTag returned openTag: a failure is the failure of
\* element, a void or self-closing element returns, a raw text element has its text
\* read, any other element enters its loop
onStartTag(openTag) ==
  IF ~openTag.success THEN ReturnFrom(openTag) /\ UNCHANGED started
  ELSE IF openTag.value.selfClosing
    THEN /\ ReturnFrom(IF voidEndTagAhead(input, openTag.position,
                                          openTag.value.tagName)
                         THEN Failure(Msg("Unexpected end tag"), openTag.position,
                                      openTag.fs)
                         ELSE openTag)
         /\ started' = Append(started, top.start)
  ELSE
    /\ IF openTag.value.kind = "RAW_TEXT" \/ openTag.value.kind = "ESCAPABLE_RAW_TEXT"
         THEN Continue([top EXCEPT !.at = "rawText",
                                   !.openTag = openTag.value,
                                   !.position = openTag.position])
         ELSE Continue([top EXCEPT !.at = "children",
                                   !.openTag = openTag.value,
                                   !.position = openTag.position,
                                   !.avoidOpenTags = omission(openTag.value.tagName).open,
                                   !.cdata = Len(openTag.fs) > 0])
    /\ foreignStack' = openTag.fs
    /\ started' = Append(started, top.start)
    /\ UNCHANGED <<pieces, entry, result, output, options, first, calls>>

\* src/parser.ts:445: the start tag
StartTag ==
  /\ frames # << >>
  /\ top.at = "startTag"
  /\ onStartTag(parse(Parser("startTag"), input, top.position, foreignStack))

\* src/parser.ts:477-481: the children of a raw text or escapable raw text element
onRawText(r) ==
  Continue([top EXCEPT !.at = "endTag", !.position = r.position, !.children = r.value])

RawText ==
  /\ frames # << >>
  /\ top.at = "rawText"
  /\ onRawText(rawText(input, top.position, top.openTag.tagName))
  /\ UNCHANGED <<foreignStack, pieces, entry, result, output, options, first, calls,
                 started>>

\* src/parser.ts:483-488: text read t, or else element is called unless a start tag of
\* avoidOpenTags is ahead
onText(t) ==
  IF t.success
    THEN Continue([top EXCEPT !.position = t.position,
                              !.children = Append(@, t.value)])
  ELSE IF openTagAhead(input, top.position, top.avoidOpenTags)
    THEN Continue([top EXCEPT !.at = "alt"])
  ELSE frames' = Append(frames, Activation("element", top.position))

\* an iteration of many begins
Iterate ==
  /\ frames # << >>
  /\ top.at = "children"
  /\ onText(text(input, top.position))
  /\ UNCHANGED <<foreignStack, pieces, entry, result, output, options, first, calls,
                 started>>

\* alt: the first alternative that matches
firstOf(c, m) == IF c.success THEN c ELSE m

\* src/parser.ts:489-493: the alternatives after element returned one; when none
\* matched the loop ends: fragments returns its nodes (src/parser.ts:592), element
\* goes on to its end tag
onAlternatives(one) ==
  IF one.success
    THEN /\ Continue([top EXCEPT !.at = "children",
                                 !.position = one.position,
                                 !.children = Append(@, one.value)])
         /\ UNCHANGED <<foreignStack, pieces, entry, result, output, options, first,
                        calls, started>>
  ELSE IF top.parser = "fragments"
    THEN /\ ReturnFrom(Success(top.children, top.position, foreignStack))
         /\ UNCHANGED started
  ELSE /\ Continue([top EXCEPT !.at = "endTag"])
       /\ UNCHANGED <<foreignStack, pieces, entry, result, output, options, first,
                      calls, started>>

\* the alternatives after element: cdata (in foreign content) and comment
Alternatives ==
  /\ frames # << >>
  /\ top.at = "alt"
  /\ onAlternatives(
       firstOf(IF top.cdata THEN cdata(input, top.position)
               ELSE Err(Msg("no cdata alternative"), top.position),
               comment(input, top.position)))

\* src/parser.ts:540-560: after endTagParser returned res: its failure is the failure
\* of element; svg and math pop foreignStack
onEndTag(res) ==
  IF ~res.success
    THEN ReturnFrom(Failure(res.message, res.position, foreignStack))
    ELSE ReturnFrom(Success([tagName |-> top.openTag.tagName,
                             kind |-> top.openTag.kind,
                             attributes |-> top.openTag.attributes,
                             children |-> top.children],
                            res.position,
                            IF top.openTag.tagName = SVG \/ top.openTag.tagName = MATH
                              THEN SubSeq(foreignStack, 1, Len(foreignStack) - 1)
                              ELSE foreignStack))

\* src/parser.ts:526-539: the end tag, written or omitted
EndTag ==
  /\ frames # << >>
  /\ top.at = "endTag"
  /\ onEndTag(endTagParser(input, top.position, top.openTag.tagName))
  /\ UNCHANGED started

\* the caller drops the result of the invocation that returned
Drop == frames = << >> /\ Discard

\* a step of the invocation under way
Step == StartTag \/ RawText \/ Iterate \/ Alternatives \/ EndTag

NextSteps ==
  \/ Call(StepDocuments)
  \/ StartTag
  \/ RawText
  \/ Iterate
  \/ Alternatives
  \/ EndTag
  \/ Drop

SpecSteps == Init /\ [][NextSteps]_vars


(***************************************************************************)
(* Termination: the loops consume, no start tag is read twice, the stack   *)
(* is no deeper than the input is long, and every step lowers a bounded    *)
(* measure                                                                 *)
(***************************************************************************)
\* the activation at depth i before a step is the one at depth i after it
sameActivation(i) ==
  /\ i <= Len(frames')
  /\ frames'[i].parser = frames[i].parser
  /\ frames'[i].start = frames[i].start

\* an iteration of the loop of activation i ended in this step: one more child
iterated(i) == sameActivation(i) /\ Len(frames'[i].children) > Len(frames[i].children)

\* the elements on the stack whose start tag was read: element recursed into their
\* children
openElements ==
  {i \in 1..Len(frames) : frames[i].parser = "element" /\ frames[i].at # "startTag"}

\* what is left for activation i to do where it stands: the input ahead of it counts
\* most, then how far it is through the alternatives at that position; an activation
\* that waits for the element it called has used up text and element there
weight(fr, i, len) ==
  5 * (len + 1 - fr[i].position)
    + (IF i < Len(fr) THEN 2
       ELSE CASE fr[i].at = "startTag" -> 4
              [] fr[i].at = "children" -> 3
              [] fr[i].at = "rawText" -> 1
              [] fr[i].at = "alt" -> 1
              [] fr[i].at = "endTag" -> 0)

\* the stack new is below the stack old in the lexicographic order of the weights,
\* bottom first
lower(new, old, len) ==
  \E i \in 1..Len(old) :
    /\ i <= Len(new)
    /\ \A j \in 1..(i - 1) : weight(new, j, len) = weight(old, j, len)
    /\ weight(new, i, len) < weight(old, i, len)

\* every step of an invocation but its last lowers the stack
stepLowers ==
  (frames # << >> /\ frames' # << >>) => lower(frames', frames, Len(input))

\* the weights are bounded, so no descent goes on for ever
bounded ==
  \A i \in 1..Len(frames) :
    /\ frames[i].position \in 1..(Len(input) + 1)
    /\ weight(frames, i, Len(input)) \in 0..(5 * Len(input) + 4)

noStartTagTwice ==
  \A i, j \in 1..Len(started) : i # j => started[i] # started[j]

\* C29: every invocation of element and fragments terminates: every iteration of a
\* children loop or of the fragments loop moves the position forward, no start tag is
\* read twice at one position (after an omitted end tag the element is not parsed
\* again), the elements open on the stack are no more than the input has characters
\* and start further and further in it, and every step lowers the stack of bounded
\* weights, so an invocation makes finitely many steps
C29_Terminates ==
  /\ [](/\ noStartTagTwice
        /\ Cardinality(openElements) <= Len(input)
        /\ \A i, j \in openElements : i < j => frames[i].start < frames[j].start
        /\ bounded)
  /\ [][/\ \A i \in 1..Len(frames) :
             iterated(i) => frames'[i].position > frames[i].position
        /\ stepLowers]_vars

\* <ul><li><li>a</ul> was parsed to its end: both li ended without an end tag, the
\* second where the first had ended, and three start tags were read
C29_Witness ==
  /\ entry = "element"
  /\ frames = << >>
  /\ pieces = <<<<"<", "u", "l", ">", "<", "l", "i", ">">>, <<"<", "l", "i", ">", "a">>, <<"<", "/", "u", "l", ">">>>>
  /\ Complete(result, input)
  /\ started = <<1, 5, 9>>
====
